---- MODULE Spec2Model ----
(***************************************************************************)
(* Incremental dungeon generator: the generator (rooms, corridors,         *)
(* exploration state), its Grid Occupancy Tracker, its Shared Wall Manager *)
(* and the Door Registry the manager owns.                                 *)
(*                                                                         *)
(* Positions are pairs <<x, y>>.  Element ids are pairs <<kind, n>>.       *)
(* A grid pattern is the set of its true local cells.                      *)
(***************************************************************************)
EXTENDS Integers, Sequences, FiniteSets, TLC

(* ---------------------------------------------------------------------- *)
(* Bounds of the model                                                     *)
(* ---------------------------------------------------------------------- *)

\* settings.gridSize of the generator instance under study
GridSize == 6

\* generateFromConnectionPoint is followed only while fewer elements than this are placed
MaxElements == 3

\* seedToNumber(seed) ranges over 0 .. MaxSeedNum - 1 (the seed holds Date.now())
MaxSeedNum == 10

\* failures forced inside integrateGeneratedElements, per session
MaxForcedFailures == 1

\* seed strings handed to generateConnectedContent have 1 .. MaxSeedLen characters
MaxSeedLen == 3

\* seed strings handed to seedToNumber alone have 0 .. MaxHashLen characters
MaxHashLen == 7

\* door locations and element ids the Door Registry is driven with on its own
MaxRegistryLocations == 3

MaxRegistryElements == 2

\* the largest number of placed elements when every generation tries a room
MaxRoomElements == 4

\* the largest number of connection points of the templates the position
\* calculation and the connection point validator are run on
MaxTemplatePoints == 2

\* the template masks expandRoom is run on fit MaxMaskWidth x MaxMaskHeight
MaxMaskWidth == 2

MaxMaskHeight == 2

\* the largest number of occupied cells expandRoom is run with
MaxOccupied == 1

(* ---------------------------------------------------------------------- *)
(* Program constants                                                       *)
(* ---------------------------------------------------------------------- *)

MIN_CORRIDOR_LENGTH == 3

MAX_CORRIDOR_LENGTH_VARIANCE == 5

\* ROOM_GENERATION_PROBABILITY * 10
ROOM_GENERATION_THRESHOLD == 7

(* ---------------------------------------------------------------------- *)
(* Types                                                                   *)
(* ---------------------------------------------------------------------- *)

ExitDirection == <<"north", "south", "east", "west">>

Cardinals == {"north", "south", "east", "west"}

NoId == <<"none", 0>>

UnknownId == <<"unknown", 0>>

\* room-NN
RoomId(n) == <<"room", n>>

\* corridor-<timestamp>-<random>: an id no placed corridor has
CorridorId(corrs) == <<"corridor", Len(corrs)>>

\* `${element.id}-door-${index}`, index counted from 0
LocalDoorId(id, index) == <<id, index>>

(* ---------------------------------------------------------------------- *)
(* Template catalog (data/roomTemplates.ts)                                *)
(* ---------------------------------------------------------------------- *)

FullPattern(w, h) == (0 .. w - 1) \X (0 .. h - 1)

EntranceTemplates ==
  << [id |-> "entrance-square", type |-> "entrance", width |-> 2, height |-> 2,
      gridPattern |-> FullPattern(2, 2),
      connectionPoints |-> << [direction |-> "north", position |-> <<0, 0>>],
                              [direction |-> "east",  position |-> <<1, 1>>],
                              [direction |-> "south", position |-> <<1, 1>>] >>] >>

StandardTemplates ==
  << [id |-> "square-small", type |-> "standard", width |-> 2, height |-> 2,
      gridPattern |-> FullPattern(2, 2),
      connectionPoints |-> << [direction |-> "north", position |-> <<0, 0>>],
                              [direction |-> "east",  position |-> <<1, 0>>],
                              [direction |-> "south", position |-> <<1, 1>>],
                              [direction |-> "west",  position |-> <<0, 1>>] >>],
     [id |-> "l-shape-small", type |-> "standard", width |-> 2, height |-> 2,
      gridPattern |-> {<<1, 0>>, <<0, 1>>, <<1, 1>>},
      connectionPoints |-> << [direction |-> "north", position |-> <<0, 1>>],
                              [direction |-> "east",  position |-> <<1, 0>>],
                              [direction |-> "south", position |-> <<1, 1>>] >>] >>

AllTemplates == EntranceTemplates \o StandardTemplates

getRoomTemplateById(tid) ==
  LET I == {i \in DOMAIN AllTemplates : AllTemplates[i].id = tid}
  IN  AllTemplates[CHOOSE i \in I : \A j \in I : i <= j]

(* ---------------------------------------------------------------------- *)
(* Position / direction math                                               *)
(* ---------------------------------------------------------------------- *)

Abs(n) == IF n < 0 THEN -n ELSE n

Add(p, q) == <<p[1] + q[1], p[2] + q[2]>>

Sub(p, q) == <<p[1] - q[1], p[2] - q[2]>>

getOppositeDirection(d) ==
  CASE d = "north" -> "south"
    [] d = "south" -> "north"
    [] d = "east"  -> "west"
    [] d = "west"  -> "east"
    [] OTHER       -> d

directionToVector(d) ==
  CASE d = "north" -> <<0, -1>>
    [] d = "south" -> <<0, 1>>
    [] d = "east"  -> <<1, 0>>
    [] d = "west"  -> <<-1, 0>>
    [] OTHER       -> <<0, 0>>

getAdjacentPosition(p, d) == Add(p, directionToVector(d))

getNeighbors(p) ==
  << <<p[1], p[2] - 1>>, <<p[1], p[2] + 1>>, <<p[1] + 1, p[2]>>, <<p[1] - 1, p[2]>> >>

\* getDoorPositionAdjustment with no pair adjusted
getDoorPositionAdjustment_None(sourceDirection, templateDirection) == <<0, 0>>

getDoorPositionAdjustment(sourceDirection, templateDirection) ==
  CASE sourceDirection = "west"  /\ templateDirection = "east"  -> <<-1, 0>>
    [] sourceDirection = "east"  /\ templateDirection = "west"  -> <<1, 0>>
    [] sourceDirection = "north" /\ templateDirection = "south" -> <<0, -1>>
    [] sourceDirection = "south" /\ templateDirection = "north" -> <<0, 1>>
    [] OTHER -> <<0, 0>>

\* [roomPosition, connectingPointIndex], the index counted from 0, -1 for none
calculateRoomPositionFromConnection(cp, template) ==
  LET opp == getOppositeDirection(cp.direction)
      C   == {i \in DOMAIN template.connectionPoints :
                template.connectionPoints[i].direction = opp}
  IN  IF C = {}
      THEN [roomPosition |-> <<0, 0>>, connectingPointIndex |-> -1]
      ELSE LET i   == CHOOSE k \in C : \A j \in C : k <= j
               tcp == template.connectionPoints[i]
           IN  [roomPosition |->
                  Add(Sub(cp.position, tcp.position),
                      getDoorPositionAdjustment(cp.direction, tcp.direction)),
                connectingPointIndex |-> i - 1]

(* ---------------------------------------------------------------------- *)
(* Sequence helpers                                                        *)
(* ---------------------------------------------------------------------- *)

Range(s) == {s[i] : i \in DOMAIN s}

RECURSIVE SelectIdx(_, _, _)
\* the indices i of s, in order, with keep[i]
SelectIdx(s, keep, i) ==
  IF i > Len(s) THEN << >>
  ELSE (IF keep[i] THEN <<s[i]>> ELSE << >>) \o SelectIdx(s, keep, i + 1)

Filter(s, keep) == SelectIdx(s, keep, 1)

Includes(s, e) == \E i \in DOMAIN s : s[i] = e

(* ---------------------------------------------------------------------- *)
(* Elements                                                                *)
(* ---------------------------------------------------------------------- *)

\* 'gridPattern' in element || 'templateId' in element
IsRoom(el) == el.id[1] = "room"

\* the room's own mask if it has one, else the template's, else the rectangle
getRoomGridPattern(room) ==
  IF room.hasPattern THEN room.gridPattern
  ELSE IF \E i \in DOMAIN AllTemplates : AllTemplates[i].id = room.templateId
       THEN getRoomTemplateById(room.templateId).gridPattern
       ELSE FullPattern(room.width, room.height)

RoomCells(room) == {Add(room.position, c) : c \in getRoomGridPattern(room)}

CorridorCells(corridor) == Range(corridor.path)

ElementCells(el) == IF IsRoom(el) THEN RoomCells(el) ELSE CorridorCells(el)

(* ---------------------------------------------------------------------- *)
(* Grid Occupancy Tracker                                                  *)
(* ---------------------------------------------------------------------- *)

isWithinBounds(p) ==
  p[1] >= 0 /\ p[1] < GridSize /\ p[2] >= 0 /\ p[2] < GridSize

markRoomAsOccupied(occ, room) == occ \cup RoomCells(room)

markCorridorAsOccupied(occ, corridor) == occ \cup Range(corridor.path)

\* the available local cells of the w x h area at position
getAvailableRoomArea(occ, position, w, h) ==
  {c \in FullPattern(w, h) :
     isWithinBounds(Add(position, c)) /\ Add(position, c) \notin occ}

(* ---------------------------------------------------------------------- *)
(* Door Registry                                                           *)
(* ---------------------------------------------------------------------- *)

\* `door-${position.x}-${position.y}-${direction}`
createDoorId(position, direction) == <<position, direction>>

CpDoorId(cp) == createDoorId(cp.position, cp.direction)

hasDoor(doors, position, direction) ==
  createDoorId(position, direction) \in DOMAIN doors

getDoorState(doors, position, direction) ==
  IF hasDoor(doors, position, direction)
  THEN doors[createDoorId(position, direction)].state
  ELSE "closed"

isDoorGenerated(doors, position, direction) ==
  IF hasDoor(doors, position, direction)
  THEN doors[createDoorId(position, direction)].isGenerated
  ELSE FALSE

\* DoorRegistry.hasConflictingDoors(position)
hasConflictingDoors(doors, position) ==
  \/ hasDoor(doors, position, "north") /\ hasDoor(doors, position, "south")
  \/ hasDoor(doors, position, "east") /\ hasDoor(doors, position, "west")

\* registerDoor without the test that the door already lists the element
registerDoor_AlwaysPush(doors, position, direction, elementId, initialState) ==
  LET k == createDoorId(position, direction)
  IN  IF k \in DOMAIN doors
      THEN [doors EXCEPT ![k].connectedElements = Append(@, elementId)]
      ELSE (k :> [state |-> initialState,
                  connectedElements |-> <<elementId>>,
                  isGenerated |-> FALSE]) @@ doors

\* registerDoor for a location: join the existing door or create a closed one
registerDoor(doors, position, direction, elementId, initialState) ==
  LET k == createDoorId(position, direction)
  IN  IF k \in DOMAIN doors
      THEN IF Includes(doors[k].connectedElements, elementId)
           THEN doors
           ELSE [doors EXCEPT ![k].connectedElements = Append(@, elementId)]
      ELSE (k :> [state |-> initialState,
                  connectedElements |-> <<elementId>>,
                  isGenerated |-> FALSE]) @@ doors

\* the registry after connectElementToExistingDoors(elementId, cps)
connectDoors(doors, elementId, cps) ==
  [k \in DOMAIN doors |->
     IF (\E i \in DOMAIN cps : CpDoorId(cps[i]) = k)
        /\ ~Includes(doors[k].connectedElements, elementId)
     THEN [doors[k] EXCEPT !.connectedElements = Append(@, elementId)]
     ELSE doors[k]]

\* the connection points connectElementToExistingDoors(elementId, cps) returns
connectElementToExistingDoors(doors, elementId, cps) ==
  LET after == connectDoors(doors, elementId, cps)
  IN  [i \in DOMAIN cps |->
         IF CpDoorId(cps[i]) \in DOMAIN doors
         THEN [cps[i] EXCEPT
                 !.isConnected = TRUE,
                 !.isGenerated = doors[CpDoorId(cps[i])].isGenerated,
                 !.connectedElementId =
                    after[CpDoorId(cps[i])].connectedElements[1]]
         ELSE cps[i]]

RECURSIVE SpliceFirst(_, _)
\* connectedElements.splice(connectedElements.indexOf(elementId), 1)
SpliceFirst(seq, elementId) ==
  IF seq = << >> THEN << >>
  ELSE IF Head(seq) = elementId THEN Tail(seq)
  ELSE <<Head(seq)>> \o SpliceFirst(Tail(seq), elementId)

\* removeElementFromDoors(elementId): a door the element leaves empty is deleted
removeElementFromDoors(doors, elementId) ==
  LET kept == {k \in DOMAIN doors :
                 ~(/\ Includes(doors[k].connectedElements, elementId)
                   /\ SpliceFirst(doors[k].connectedElements, elementId) = << >>)}
  IN  [k \in kept |->
         [doors[k] EXCEPT !.connectedElements = SpliceFirst(@, elementId)]]

\* clear()
clearDoors(doors) == << >>

(* ---------------------------------------------------------------------- *)
(* Shared Wall Manager                                                     *)
(* A world W is [rooms, corridors, elements, doors]: the manager's live    *)
(* element list holds the very objects of rooms and corridors, so it is    *)
(* kept as the list of their ids.                                          *)
(* ---------------------------------------------------------------------- *)

FirstIdx(seq, id) ==
  CHOOSE i \in DOMAIN seq :
    seq[i].id = id /\ \A j \in DOMAIN seq : seq[j].id = id => i <= j

HasElement(W, id) ==
  \/ \E i \in DOMAIN W.rooms : W.rooms[i].id = id
  \/ \E i \in DOMAIN W.corridors : W.corridors[i].id = id

GetElement(W, id) ==
  IF \E i \in DOMAIN W.rooms : W.rooms[i].id = id
  THEN W.rooms[FirstIdx(W.rooms, id)]
  ELSE W.corridors[FirstIdx(W.corridors, id)]

SetConnectionPoints(W, id, cps) ==
  IF \E i \in DOMAIN W.rooms : W.rooms[i].id = id
  THEN [W EXCEPT !.rooms[FirstIdx(W.rooms, id)].connectionPoints = cps]
  ELSE [W EXCEPT !.corridors[FirstIdx(W.corridors, id)].connectionPoints = cps]

AllElements(W) == W.rooms \o W.corridors

\* the placed elements the manager's list refers to, in the list's order
LiveElements(W) == [i \in DOMAIN W.elements |-> GetElement(W, W.elements[i])]

\* the doors autoOpenRevealedDoors opens
DoorsToAutoOpen(W) ==
  {k \in DOMAIN W.doors :
     /\ W.doors[k].state # "open"
     /\ Len(W.doors[k].connectedElements) >= 2
     /\ \A i \in DOMAIN W.doors[k].connectedElements :
          Includes(W.elements, W.doors[k].connectedElements[i])}

\* updateConnectionPointsForAutoOpenedDoor, for every door of the set opened
AutoOpenedPoints(el, doors, opened) ==
  [i \in DOMAIN el.connectionPoints |->
     IF CpDoorId(el.connectionPoints[i]) \in opened
        /\ Includes(doors[CpDoorId(el.connectionPoints[i])].connectedElements, el.id)
     THEN [el.connectionPoints[i] EXCEPT !.isGenerated = TRUE, !.isConnected = TRUE]
     ELSE el.connectionPoints[i]]

autoOpenRevealedDoors(W) ==
  LET opened == DoorsToAutoOpen(W)
      live(el) == Includes(W.elements, el.id)
  IN  [W EXCEPT
         !.doors = [k \in DOMAIN W.doors |->
                      IF k \in opened
                      THEN [W.doors[k] EXCEPT !.state = "open", !.isGenerated = TRUE]
                      ELSE W.doors[k]],
         !.rooms = [i \in DOMAIN W.rooms |->
                      IF live(W.rooms[i])
                      THEN [W.rooms[i] EXCEPT !.connectionPoints =
                              AutoOpenedPoints(W.rooms[i], W.doors, opened)]
                      ELSE W.rooms[i]],
         !.corridors = [i \in DOMAIN W.corridors |->
                      IF live(W.corridors[i])
                      THEN [W.corridors[i] EXCEPT !.connectionPoints =
                              AutoOpenedPoints(W.corridors[i], W.doors, opened)]
                      ELSE W.corridors[i]]]

RECURSIVE RegisterAll(_, _, _, _)
\* the registry after registering, in order, every point from index i on
\* that has no door yet
RegisterAll(doors, elementId, cps, i) ==
  IF i > Len(cps) THEN doors
  ELSE RegisterAll(
         IF CpDoorId(cps[i]) \in DOMAIN doors THEN doors
         ELSE registerDoor(doors, cps[i].position, cps[i].direction,
                           elementId, "closed"),
         elementId, cps, i + 1)

\* DoorRegistry.updateDoorState, reached by SharedWallManager.updateDoorState
updateDoorState(doors, position, direction, state) ==
  IF hasDoor(doors, position, direction)
  THEN [doors EXCEPT ![createDoorId(position, direction)].state = state]
  ELSE doors

\* SharedWallManager.removeElement(elementId)
removeElement(W, elementId) ==
  [W EXCEPT
     !.elements = Filter(@, [i \in DOMAIN @ |-> @[i] # elementId]),
     !.doors = removeElementFromDoors(@, elementId)]

\* addElement without the registration of the points that have no door yet
addElement_NoRegister(W, id) ==
  LET el      == GetElement(W, id)
      updated == connectElementToExistingDoors(W.doors, id, el.connectionPoints)
      doors1  == connectDoors(W.doors, id, el.connectionPoints)
      W1      == [SetConnectionPoints(W, id, updated) EXCEPT
                    !.elements = Append(@, id), !.doors = doors1]
  IN  autoOpenRevealedDoors(W1)

\* SharedWallManager.addElement(element), the element being in W already
addElement(W, id) ==
  LET el      == GetElement(W, id)
      updated == connectElementToExistingDoors(W.doors, id, el.connectionPoints)
      doors1  == connectDoors(W.doors, id, el.connectionPoints)
      doors2  == RegisterAll(doors1, id, updated, 1)
      W1      == [SetConnectionPoints(W, id, updated) EXCEPT
                    !.elements = Append(@, id), !.doors = doors2]
  IN  autoOpenRevealedDoors(W1)

\* SharedWallManager.validateDoorConsistency(): the issues, as
\* <<door key, kind of issue>>
validateDoorConsistency(W) ==
  {<<k, "missing">> : k \in {d \in DOMAIN W.doors :
      /\ Len(W.doors[d].connectedElements) > 1
      /\ \E i \in DOMAIN W.doors[d].connectedElements :
            ~Includes(W.elements, W.doors[d].connectedElements[i])}}
  \cup
  {<<k, "conflicting">> : k \in {d \in DOMAIN W.doors :
      hasConflictingDoors(W.doors, d[1])}}

\* SharedWallManager.reset()
resetWalls(W) == [W EXCEPT !.elements = << >>, !.doors = << >>]

(* ---------------------------------------------------------------------- *)
(* Block Expansion Engine                                                  *)
(* A context ctx is [entryPoint, entryDirection, sourceConnectionPoint,    *)
(* sourceElementId, geomorphBounds, targetPosition, rooms, corridors,      *)
(* occupied].                                                              *)
(* ---------------------------------------------------------------------- *)

getExpansionBias(entryDirection) ==
  CASE entryDirection = "north" -> <<0, 1>>
    [] entryDirection = "south" -> <<0, -1>>
    [] entryDirection = "east"  -> <<-1, 0>>
    [] entryDirection = "west"  -> <<1, 0>>
    [] OTHER -> <<0, 0>>

\* twice the biased distance, to stay in the integers
getDistanceFromEntry(position, entryPoint, bias) ==
  LET dx == position[1] - entryPoint[1]
      dy == position[2] - entryPoint[2]
  IN  2 * (Abs(dx) + Abs(dy)) - (dx * bias[1] + dy * bias[2])

\* canExpandTo without the test that the position is inside the grid
canExpandTo_AnyGridCell(position, ctx) ==
  LET rel == Sub(position, ctx.targetPosition)
  IN  /\ rel[1] >= 0 /\ rel[1] < ctx.geomorphBounds.width
      /\ rel[2] >= 0 /\ rel[2] < ctx.geomorphBounds.height
      /\ rel \in ctx.geomorphBounds.gridPattern
      /\ position \notin ctx.occupied

\* canExpandTo without the test that the position is free
canExpandTo_IgnoreOccupied(position, ctx) ==
  LET rel == Sub(position, ctx.targetPosition)
  IN  /\ rel[1] >= 0 /\ rel[1] < ctx.geomorphBounds.width
      /\ rel[2] >= 0 /\ rel[2] < ctx.geomorphBounds.height
      /\ rel \in ctx.geomorphBounds.gridPattern
      /\ isWithinBounds(position)

canExpandTo(position, ctx) ==
  LET rel == Sub(position, ctx.targetPosition)
  IN  /\ rel[1] >= 0 /\ rel[1] < ctx.geomorphBounds.width
      /\ rel[2] >= 0 /\ rel[2] < ctx.geomorphBounds.height
      /\ rel \in ctx.geomorphBounds.gridPattern
      /\ isWithinBounds(position)
      /\ position \notin ctx.occupied

RECURSIVE InsertByDistance(_, _, _, _)
\* p put behind every element of the sorted list that is not farther than p
InsertByDistance(sorted, p, entryPoint, bias) ==
  IF sorted = << >> THEN <<p>>
  ELSE IF getDistanceFromEntry(Head(sorted), entryPoint, bias)
            <= getDistanceFromEntry(p, entryPoint, bias)
       THEN <<Head(sorted)>> \o InsertByDistance(Tail(sorted), p, entryPoint, bias)
       ELSE <<p>> \o sorted

RECURSIVE SortFrontier(_, _, _)
\* frontier.sort by biased distance (the sort is stable)
SortFrontier(frontier, entryPoint, bias) ==
  IF frontier = << >> THEN << >>
  ELSE InsertByDistance(
         SortFrontier(SubSeq(frontier, 1, Len(frontier) - 1), entryPoint, bias),
         frontier[Len(frontier)], entryPoint, bias)

\* one pass of the loop without the test that the neighbour is already in
\* the expanded set
ExpandIteration_NoSeenTest(frontier, blocks, ctx) ==
  LET sorted == SortFrontier(frontier, ctx.entryPoint,
                             getExpansionBias(ctx.entryDirection))
      nb     == getNeighbors(Head(sorted))
      fresh  == Filter(nb, [i \in DOMAIN nb |-> canExpandTo(nb[i], ctx)])
  IN  [frontier |-> Tail(sorted) \o fresh, blocks |-> blocks \o fresh]

\* one pass of the while loop of expandRoom: the frontier and the expanded
\* set (in insertion order) it leaves
ExpandIteration(frontier, blocks, ctx) ==
  LET sorted == SortFrontier(frontier, ctx.entryPoint,
                             getExpansionBias(ctx.entryDirection))
      nb     == getNeighbors(Head(sorted))
      fresh  == Filter(nb, [i \in DOMAIN nb |->
                              canExpandTo(nb[i], ctx) /\ ~Includes(blocks, nb[i])])
  IN  [frontier |-> Tail(sorted) \o fresh, blocks |-> blocks \o fresh]

RECURSIVE ExpandLoop(_, _, _)
\* the while loop of expandRoom; blocks is the expanded set in insertion order
ExpandLoop(frontier, blocks, ctx) ==
  IF frontier = << >> THEN blocks
  ELSE LET next == ExpandIteration(frontier, blocks, ctx)
       IN  ExpandLoop(next.frontier, next.blocks, ctx)

findPerimeterPositions(blocks) ==
  Filter(blocks, [i \in DOMAIN blocks |->
                    \E j \in 1 .. 4 : ~Includes(blocks, getNeighbors(blocks[i])[j])])

\* does this placed element cover the cell, as the engine decides it
EngineSeesCell(el, cell) ==
  IF IsRoom(el) /\ el.hasPattern
  THEN LET rel == Sub(cell, el.position)
       IN  /\ rel[1] >= 0 /\ rel[1] < el.width
           /\ rel[2] >= 0 /\ rel[2] < el.height
           /\ rel \in el.gridPattern
  ELSE IF IsRoom(el) THEN FALSE
       ELSE Includes(el.path, cell)

shouldPlaceDoor(roomPosition, direction, adjacentPosition, ctx) ==
  LET existing == ctx.rooms \o ctx.corridors
      adjacentElement ==
        \E e \in DOMAIN existing : \E c \in DOMAIN existing[e].connectionPoints :
           /\ existing[e].connectionPoints[c].position = adjacentPosition
           /\ existing[e].connectionPoints[c].direction = getOppositeDirection(direction)
      rel == Sub(roomPosition, ctx.targetPosition)
      templateHasDoor ==
        \E c \in DOMAIN ctx.geomorphBounds.connectionPoints :
           /\ ctx.geomorphBounds.connectionPoints[c].position = rel
           /\ ctx.geomorphBounds.connectionPoints[c].direction = direction
      adjacentBlocked ==
        \E e \in DOMAIN existing : EngineSeesCell(existing[e], adjacentPosition)
  IN  IF adjacentElement THEN TRUE
      ELSE IF templateHasDoor THEN ~adjacentBlocked
      ELSE FALSE

NewPoint(direction, position) ==
  [direction |-> direction, position |-> position, isConnected |-> FALSE,
   connectedElementId |-> NoId, isGenerated |-> FALSE,
   generationSeed |-> << >>, state |-> "ungenerated"]

EntryPointCP(direction, position, sourceId) ==
  [direction |-> direction, position |-> position, isConnected |-> TRUE,
   connectedElementId |-> sourceId, isGenerated |-> TRUE,
   generationSeed |-> << >>, state |-> "connected"]

RECURSIVE PerimeterDoors(_, _, _, _)
\* the doors of the perimeter positions from index i on, direction index d on
PerimeterDoors(perimeter, i, d, ctx) ==
  IF i > Len(perimeter) THEN << >>
  ELSE IF d > 4 \/ perimeter[i] = ctx.entryPoint
       THEN PerimeterDoors(perimeter, i + 1, 1, ctx)
       ELSE (IF shouldPlaceDoor(perimeter[i], ExitDirection[d],
                                getAdjacentPosition(perimeter[i], ExitDirection[d]), ctx)
             THEN <<NewPoint(ExitDirection[d], perimeter[i])>>
             ELSE << >>)
            \o PerimeterDoors(perimeter, i, d + 1, ctx)

generateConnectionPoints(blocks, ctx) ==
  <<EntryPointCP(getOppositeDirection(ctx.sourceConnectionPoint.direction),
                 ctx.entryPoint, ctx.sourceElementId)>>
  \o PerimeterDoors(findPerimeterPositions(blocks), 1, 1, ctx)

\* [expandedBlocks, finalConnectionPoints]
\* the start of expandRoom with the entry point put to the test of canExpandTo
ExpandStart_Tested(ctx) ==
  IF canExpandTo(ctx.entryPoint, ctx)
  THEN [frontier |-> <<ctx.entryPoint>>, blocks |-> <<ctx.entryPoint>>]
  ELSE [frontier |-> << >>, blocks |-> << >>]

\* expandRoom before its loop: the entry point is added and pushed as it is
ExpandStart(ctx) ==
  [frontier |-> <<ctx.entryPoint>>, blocks |-> <<ctx.entryPoint>>]

expandRoom(ctx) ==
  LET blocks == ExpandLoop(ExpandStart(ctx).frontier, ExpandStart(ctx).blocks, ctx)
  IN  [expandedBlocks |-> blocks,
       finalConnectionPoints |-> generateConnectionPoints(blocks, ctx)]

(* ---------------------------------------------------------------------- *)
(* Incremental Dungeon Generator: content generation                       *)
(* A generator state G is [rooms, corridors, roomCounter, explorationState,*)
(* occupied, elements, doors].                                             *)
(* ---------------------------------------------------------------------- *)

EmptyExploration ==
  [discoveredRoomIds |-> {}, discoveredCorridorIds |-> {},
   doorStates |-> << >>, unexploredConnectionPoints |-> << >>]

\* the generator as constructed, and as reset() leaves it
FreshGenerator ==
  [rooms |-> << >>, corridors |-> << >>, roomCounter |-> 0,
   explorationState |-> EmptyExploration,
   occupied |-> {}, elements |-> << >>, doors |-> << >>]

\* findEntrancePosition with the two offsets exchanged
findEntrancePosition_Exchanged == <<(GridSize \div 2) - 2, (GridSize \div 2) - 3>>

findEntrancePosition == <<(GridSize \div 2) - 3, (GridSize \div 2) - 2>>

\* the seed of a point: position, direction (and the time, left out)
generateSeed(cp) == <<cp.position[1], cp.position[2], cp.direction>>

generateEntranceRoom(G, template) ==
  [id |-> RoomId(G.roomCounter),
   type |-> "entrance",
   position |-> findEntrancePosition,
   width |-> template.width, height |-> template.height,
   templateId |-> template.id,
   hasPattern |-> FALSE, gridPattern |-> {},
   connectionPoints |->
     [i \in DOMAIN template.connectionPoints |->
        NewPoint(template.connectionPoints[i].direction,
                 Add(findEntrancePosition, template.connectionPoints[i].position))]]

getCorridorPositionAdjustment(direction) ==
  CASE direction = "north" -> <<0, -1>>
    [] direction = "south" -> <<0, 1>>
    [] direction = "east"  -> <<1, 0>>
    [] direction = "west"  -> <<-1, 0>>
    [] OTHER -> <<0, 0>>

\* may the path take this cell: inside the grid, and free unless it is the first
CorridorCellOk(occ, i, pos) ==
  isWithinBounds(pos) /\ ~(i > 0 /\ pos \in occ)

RECURSIVE CorridorPathLoop(_, _, _, _, _, _)
\* the for loop of generateCorridorPath from iteration i on
CorridorPathLoop(occ, i, currentPos, move, maxLength, path) ==
  IF i >= maxLength THEN path
  ELSE LET pos == IF i > 0 THEN Add(currentPos, move) ELSE currentPos
       IN  IF ~CorridorCellOk(occ, i, pos) THEN path
           ELSE CorridorPathLoop(occ, i + 1, pos, move, maxLength, Append(path, pos))

generateCorridorPath(occ, cp, maxLength) ==
  CorridorPathLoop(occ, 0,
                   Add(cp.position, getCorridorPositionAdjustment(cp.direction)),
                   directionToVector(cp.direction), maxLength, << >>)

\* what generateConnectedContent hands back: the new elements, the room counter,
\* whether it threw, the template and origin a room was grown in, and the
\* corridor length asked of generateCorridorPath (0 when no corridor was tried)
NoContent(G) ==
  [rooms |-> << >>, corridors |-> << >>, roomCounter |-> G.roomCounter,
   thrown |-> FALSE, template |-> "none", targetPosition |-> <<0, 0>>,
   corridorLength |-> 0]

generateConnectedCorridor(G, cp, seedNum) ==
  LET corridorLength == MIN_CORRIDOR_LENGTH + (seedNum % MAX_CORRIDOR_LENGTH_VARIANCE)
      path == generateCorridorPath(G.occupied, cp, corridorLength)
      tried == [NoContent(G) EXCEPT !.corridorLength = corridorLength]
  IN  IF Len(path) < 1 THEN tried
      \* getCorridorDirection(path[0], path[1]) reads path[1].x
      ELSE IF Len(path) < 2 THEN [tried EXCEPT !.thrown = TRUE]
      ELSE [tried EXCEPT !.corridors =
              << [id |-> CorridorId(G.corridors),
                  length |-> Len(path),
                  path |-> path,
                  connectionPoints |->
                    << [direction |-> getOppositeDirection(cp.direction),
                        position |-> path[1],
                        isConnected |-> TRUE,
                        connectedElementId |->
                          IF cp.connectedElementId = NoId THEN UnknownId
                          ELSE cp.connectedElementId,
                        isGenerated |-> TRUE,
                        generationSeed |-> << >>,
                        state |-> "connected"],
                       NewPoint(cp.direction, path[Len(path)]) >>] >>]

MinOf(S) == CHOOSE n \in S : \A m \in S : n <= m

MaxOf(S) == CHOOSE n \in S : \A m \in S : n >= m

generateConnectedRoom(G, cp, seedNum) ==
  LET template == StandardTemplates[(seedNum % Len(StandardTemplates)) + 1]
      calc     == calculateRoomPositionFromConnection(cp, template)
  IN  IF calc.connectingPointIndex = -1
      THEN generateConnectedCorridor(G, cp, seedNum)
      ELSE
        LET tcp == template.connectionPoints[calc.connectingPointIndex + 1]
            entryPoint == Add(calc.roomPosition, tcp.position)
            sourceId == IF cp.connectedElementId = NoId THEN UnknownId
                        ELSE cp.connectedElementId
            ctx == [entryPoint |-> entryPoint,
                    entryDirection |-> cp.direction,
                    sourceConnectionPoint |-> cp,
                    sourceElementId |-> sourceId,
                    geomorphBounds |-> template,
                    targetPosition |-> calc.roomPosition,
                    rooms |-> G.rooms, corridors |-> G.corridors,
                    occupied |-> G.occupied]
            result == expandRoom(ctx)
            blocks == Range(result.expandedBlocks)
            content == [NoContent(G) EXCEPT
                          !.roomCounter = G.roomCounter + 1,
                          !.template = template.id,
                          !.targetPosition = calc.roomPosition]
        IN  IF Len(result.expandedBlocks) = 0
            THEN [content EXCEPT !.rooms =
                    << [id |-> RoomId(G.roomCounter),
                        type |-> template.type,
                        position |-> entryPoint, width |-> 1, height |-> 1,
                        templateId |-> template.id,
                        hasPattern |-> TRUE, gridPattern |-> {<<0, 0>>},
                        connectionPoints |->
                          <<EntryPointCP(getOppositeDirection(cp.direction),
                                         entryPoint, sourceId)>>] >>]
            ELSE
              LET minX == MinOf({b[1] : b \in blocks})
                  minY == MinOf({b[2] : b \in blocks})
                  maxX == MaxOf({b[1] : b \in blocks})
                  maxY == MaxOf({b[2] : b \in blocks})
              IN  [content EXCEPT !.rooms =
                    << [id |-> RoomId(G.roomCounter),
                        type |-> template.type,
                        position |-> <<minX, minY>>,
                        width |-> maxX - minX + 1, height |-> maxY - minY + 1,
                        templateId |-> template.id,
                        hasPattern |-> TRUE,
                        gridPattern |-> {Sub(b, <<minX, minY>>) : b \in blocks},
                        connectionPoints |-> result.finalConnectionPoints] >>]

\* generateConnectedContent with the two branches exchanged
generateConnectedContent_Exchanged(G, cp, seedNum) ==
  IF seedNum % 10 < ROOM_GENERATION_THRESHOLD
  THEN generateConnectedCorridor(G, cp, seedNum)
  ELSE generateConnectedRoom(G, cp, seedNum)

generateConnectedContent(G, cp, seedNum) ==
  IF seedNum % 10 < ROOM_GENERATION_THRESHOLD
  THEN generateConnectedRoom(G, cp, seedNum)
  ELSE generateConnectedCorridor(G, cp, seedNum)

\* a 32-bit pattern, given as its two 16-bit halves, read as a signed integer
Int32Of(hi, lo) ==
  IF hi >= 32768 THEN (hi - 65536) * 65536 + lo ELSE hi * 65536 + lo

\* hash << 5: the low 27 bits of the pattern moved up, read as a signed
\* 32-bit integer
ShiftLeft5(hash) ==
  LET low27 == hash % 134217728
  IN  IF low27 >= 67108864 THEN (low27 - 134217728) * 32 ELSE low27 * 32

\* one round of the loop of seedToNumber: ((hash << 5) - hash) + char, then
\* hash & hash; the sum is exact in a double and is formed half by half
HashStep(hash, char) ==
  LET shifted == ShiftLeft5(hash)
      lo == (shifted % 65536) - (hash % 65536) + char
      hi == (shifted \div 65536) - (hash \div 65536) + (lo \div 65536)
  IN  Int32Of(hi % 65536, lo % 65536)

RECURSIVE HashLoop(_, _, _)
HashLoop(seed, i, hash) ==
  IF i > Len(seed) THEN hash
  ELSE HashLoop(seed, i + 1, HashStep(hash, seed[i]))

\* seedToNumber without Math.abs
seedToNumber_Signed(seed) == HashLoop(seed, 1, 0)

\* seedToNumber(seed), the seed a sequence of character codes
seedToNumber(seed) == Abs(HashLoop(seed, 1, 0))

\* a % b of the language: the remainder has the sign of a
Remainder(a, b) == IF a >= 0 THEN a % b ELSE -((-a) % b)

\* generateConnectedContent with the seed read by charCodeAt(0) alone
generateConnectedContentOfSeed_FirstChar(G, cp, seed) ==
  generateConnectedContent(G, cp, seed[1])

\* generateConnectedContent(connectionPoint, seed, sourceElementId): every
\* use it and its callees make of the seed is seedToNumber(seed)
generateConnectedContentOfSeed(G, cp, seed) ==
  generateConnectedContent(G, cp, seedToNumber(seed))

(* ---------------------------------------------------------------------- *)
(* Incremental Dungeon Generator: integration, snapshot and rollback       *)
(* ---------------------------------------------------------------------- *)

\* doorStates.set for every connection point of the element
SetDoorStates(doorStates, el, doors) ==
  [k \in {LocalDoorId(el.id, i - 1) : i \in DOMAIN el.connectionPoints} |->
     getDoorState(doors, el.connectionPoints[k[2] + 1].position,
                  el.connectionPoints[k[2] + 1].direction)]
  @@ doorStates

\* the copies pushed onto unexploredConnectionPoints for the element
UnexploredOf(el, doors, skipOpen) ==
  LET cps  == el.connectionPoints
      kept == Filter(cps, [i \in DOMAIN cps |->
                 /\ ~cps[i].isGenerated
                 /\ ~(skipOpen /\ getDoorState(doors, cps[i].position,
                                               cps[i].direction) = "open")])
  IN  [i \in DOMAIN kept |-> [kept[i] EXCEPT !.generationSeed = generateSeed(kept[i])]]

\* one pass of a forEach of integrateGeneratedElements (or the body of
\* generateInitialDungeon): commit the element and register it everywhere
CommitElement(G, el, skipOpen) ==
  LET G1 == IF IsRoom(el)
            THEN [G EXCEPT !.rooms = Append(@, el),
                           !.explorationState.discoveredRoomIds = @ \cup {el.id},
                           !.occupied = markRoomAsOccupied(@, el)]
            ELSE [G EXCEPT !.corridors = Append(@, el),
                           !.explorationState.discoveredCorridorIds = @ \cup {el.id},
                           !.occupied = markCorridorAsOccupied(@, el)]
      G2 == addElement(G1, el.id)
      placed == GetElement(G2, el.id)
  IN  [G2 EXCEPT
         !.explorationState.doorStates = SetDoorStates(@, placed, G2.doors),
         !.explorationState.unexploredConnectionPoints =
            @ \o UnexploredOf(placed, G2.doors, skipOpen)]

RECURSIVE CommitAll(_, _, _)
CommitAll(G, els, i) ==
  IF i > Len(els) THEN G
  ELSE CommitAll(CommitElement(G, els[i], TRUE), els, i + 1)

\* the index of the first point of the element at the position and direction, 0 for none
FindPoint(el, position, direction) ==
  LET M == {i \in DOMAIN el.connectionPoints :
              /\ el.connectionPoints[i].position = position
              /\ el.connectionPoints[i].direction = direction}
  IN  IF M = {} THEN 0 ELSE MinOf(M)

\* ConnectionPointValidator.updateConnectionPointAsGenerated
updateConnectionPointAsGenerated(G, cp, sourceElementId) ==
  IF ~HasElement(G, sourceElementId) THEN G
  ELSE LET el == GetElement(G, sourceElementId)
           i  == FindPoint(el, cp.position, cp.direction)
       IN  IF i = 0 THEN G
           ELSE SetConnectionPoints(G, sourceElementId,
                  [el.connectionPoints EXCEPT ![i].isGenerated = TRUE,
                                              ![i].isConnected = TRUE])

RECURSIVE SyncElements(_, _, _, _)
SyncElements(doorStates, els, doors, i) ==
  IF i > Len(els) THEN doorStates
  ELSE SyncElements(SetDoorStates(doorStates, els[i], doors), els, doors, i + 1)

syncAllDoorStates(G) ==
  [G EXCEPT !.explorationState.doorStates =
     SyncElements(@, G.rooms \o G.corridors, G.doors, 1)]

\* the final filter of integrateGeneratedElements
RemoveResolved(G, cp) ==
  [G EXCEPT !.explorationState.unexploredConnectionPoints =
     Filter(@, [i \in DOMAIN @ |->
        /\ @[i].generationSeed # cp.generationSeed
        /\ getDoorState(G.doors, @[i].position, @[i].direction) # "open"])]

\* the places a failure can be forced inside integrateGeneratedElements
FailurePoints == {"afterAddElement", "afterUpdate"}

\* integrateGeneratedElements, run up to the forced failure (or to its end)
integrateGeneratedElements(G, content, cp, sourceElementId, failAt) ==
  LET G1 == CommitAll([G EXCEPT !.roomCounter = content.roomCounter],
                      content.rooms \o content.corridors, 1)
      G2 == updateConnectionPointAsGenerated(G1, cp, sourceElementId)
  IN  IF failAt = "afterAddElement" THEN G1
      ELSE IF failAt = "afterUpdate" THEN G2
      ELSE RemoveResolved(syncAllDoorStates(G2), cp)

RECURSIVE ReRegister(_, _, _)
\* the two forEach of rollbackToSnapshot over the restored lists
ReRegister(G, els, i) ==
  IF i > Len(els) THEN G
  ELSE ReRegister(
         addElement([G EXCEPT !.occupied = @ \cup ElementCells(els[i])], els[i].id),
         els, i + 1)

\* rollbackToSnapshot without the reset of the Grid Tracker
rollbackToSnapshot_KeepGrid(G, snapshot) ==
  LET restored == [G EXCEPT
                     !.rooms = SubSeq(G.rooms, 1, Len(snapshot.rooms)),
                     !.corridors = SubSeq(G.corridors, 1, Len(snapshot.corridors)),
                     !.roomCounter = snapshot.roomCounter,
                     !.explorationState = snapshot.explorationState,
                     !.elements = << >>,
                     !.doors = << >>]
  IN  ReRegister(restored, restored.rooms \o restored.corridors, 1)

\* rollbackToSnapshot without the restoring of roomCounter
rollbackToSnapshot_KeepCounter(G, snapshot) ==
  LET restored == [G EXCEPT
                     !.rooms = SubSeq(G.rooms, 1, Len(snapshot.rooms)),
                     !.corridors = SubSeq(G.corridors, 1, Len(snapshot.corridors)),
                     !.explorationState = snapshot.explorationState,
                     !.occupied = {},
                     !.elements = << >>,
                     !.doors = << >>]
  IN  ReRegister(restored, restored.rooms \o restored.corridors, 1)

\* rollbackToSnapshot: snapshot holds the lists' elements (the objects as they
\* are now, in G), the counter and the copied exploration state
rollbackToSnapshot(G, snapshot) ==
  LET restored == [G EXCEPT
                     !.rooms = SubSeq(G.rooms, 1, Len(snapshot.rooms)),
                     !.corridors = SubSeq(G.corridors, 1, Len(snapshot.corridors)),
                     !.roomCounter = snapshot.roomCounter,
                     !.explorationState = snapshot.explorationState,
                     !.occupied = {},
                     !.elements = << >>,
                     !.doors = << >>]
  IN  ReRegister(restored, restored.rooms \o restored.corridors, 1)

\* is the room's or corridor's point no longer the object the caller holds:
\* re-registering replaces a point by a copy when its door already exists
ReplacedByRollback(G, snapshot, sourceElementId, index) ==
  LET els == SubSeq(G.rooms, 1, Len(snapshot.rooms))
             \o SubSeq(G.corridors, 1, Len(snapshot.corridors))
      src == {i \in DOMAIN els : els[i].id = sourceElementId}
  IN  \E s \in src : \E e \in 1 .. (s - 1) : \E c \in DOMAIN els[e].connectionPoints :
        CpDoorId(els[e].connectionPoints[c])
          = CpDoorId(els[s].connectionPoints[index])

(* ---------------------------------------------------------------------- *)
(* Connection Point Validator                                              *)
(* availableGrid and trimmedPattern are the sets of their true local cells *)
(* ---------------------------------------------------------------------- *)

isWithinTemplateBounds(cp, template) ==
  /\ cp.position[1] >= 0 /\ cp.position[1] < template.width
  /\ cp.position[2] >= 0 /\ cp.position[2] < template.height

isOnAvailableSquare(cp, availableGrid, trimmedPattern) ==
  cp.position \in availableGrid /\ cp.position \in trimmedPattern

isConnectionPointAvailable(cp, availableGrid, trimmedPattern, template) ==
  /\ isWithinTemplateBounds(cp, template)
  /\ cp.position \in availableGrid
  /\ cp.position \in trimmedPattern

\* isOnPerimeter testing the template's edge only
isOnPerimeter_EdgeOnly(cp, trimmedPattern, template) ==
  CASE cp.direction = "north" -> cp.position[2] = 0
    [] cp.direction = "south" -> cp.position[2] = template.height - 1
    [] cp.direction = "west"  -> cp.position[1] = 0
    [] cp.direction = "east"  -> cp.position[1] = template.width - 1
    [] OTHER -> TRUE

isOnPerimeter(cp, trimmedPattern, template) ==
  CASE cp.direction = "north" ->
         cp.position[2] = 0
         \/ <<cp.position[1], cp.position[2] - 1>> \notin trimmedPattern
    [] cp.direction = "south" ->
         cp.position[2] = template.height - 1
         \/ <<cp.position[1], cp.position[2] + 1>> \notin trimmedPattern
    [] cp.direction = "west" ->
         cp.position[1] = 0
         \/ <<cp.position[1] - 1, cp.position[2]>> \notin trimmedPattern
    [] cp.direction = "east" ->
         cp.position[1] = template.width - 1
         \/ <<cp.position[1] + 1, cp.position[2]>> \notin trimmedPattern
    [] OTHER -> TRUE

\* the callback of the filter of validateConnectionPoints, for the point of
\* index i (from 1); preserveConnectionIndex counts from 0, -1 for undefined
KeepsConnectionPoint(template, availableGrid, trimmedPattern, preserveConnectionIndex, i) ==
  LET cp == template.connectionPoints[i]
  IN  IF preserveConnectionIndex # -1 /\ i - 1 = preserveConnectionIndex
      THEN isConnectionPointAvailable(cp, availableGrid, trimmedPattern, template)
      ELSE IF \/ ~isWithinTemplateBounds(cp, template)
              \/ ~isOnAvailableSquare(cp, availableGrid, trimmedPattern)
           THEN FALSE
           ELSE isOnPerimeter(cp, trimmedPattern, template)

\* ConnectionPointValidator.validateConnectionPoints: the filter, then the
\* map that sets index to the point's place in the filtered array
validateTemplateConnectionPoints(template, availableGrid, trimmedPattern, preserveConnectionIndex) ==
  LET cps  == template.connectionPoints
      kept == Filter(cps, [i \in DOMAIN cps |->
                 KeepsConnectionPoint(template, availableGrid, trimmedPattern,
                                      preserveConnectionIndex, i)])
  IN  [k \in DOMAIN kept |->
         [direction |-> kept[k].direction, position |-> kept[k].position,
          index |-> k - 1]]

(* ---------------------------------------------------------------------- *)
(* Wall Analyzer and Room Integration Validator                            *)
(* ---------------------------------------------------------------------- *)

isPositionAdjacentToRoom(position, direction, room) ==
  LET gridPattern == getRoomGridPattern(room)
      relativeX == position[1] - room.position[1]
      relativeY == position[2] - room.position[2]
  IN  /\ ~(relativeX < -1 \/ relativeX > room.width \/
           relativeY < -1 \/ relativeY > room.height)
      /\ CASE direction = "north" ->
                /\ relativeY = 0 /\ relativeX >= 0 /\ relativeX < room.width
                /\ <<relativeX, 0>> \in gridPattern
           [] direction = "south" ->
                /\ relativeY = room.height - 1 /\ relativeX >= 0 /\ relativeX < room.width
                /\ <<relativeX, room.height - 1>> \in gridPattern
           [] direction = "west" ->
                /\ relativeX = 0 /\ relativeY >= 0 /\ relativeY < room.height
                /\ <<0, relativeY>> \in gridPattern
           [] direction = "east" ->
                /\ relativeX = room.width - 1 /\ relativeY >= 0 /\ relativeY < room.height
                /\ <<room.width - 1, relativeY>> \in gridPattern
           [] OTHER -> FALSE

isPositionAdjacentToCorridor(position, direction, corridor) ==
  \E i \in DOMAIN corridor.path :
     corridor.path[i] = Add(position, directionToVector(direction))

isPositionAdjacentToElement(position, direction, element) ==
  IF IsRoom(element) THEN isPositionAdjacentToRoom(position, direction, element)
  ELSE isPositionAdjacentToCorridor(position, direction, element)

\* does the element have a point at the position facing the direction
HasPointAt(element, position, direction) ==
  \E i \in DOMAIN element.connectionPoints :
     /\ element.connectionPoints[i].position = position
     /\ element.connectionPoints[i].direction = direction

wouldPlaceDoorAgainstSolidWall(W, connectionPoint) ==
  LET oppositeDirection == getOppositeDirection(connectionPoint.direction)
      live == LiveElements(W)
      adjacentElements ==
        {i \in DOMAIN live :
           isPositionAdjacentToElement(connectionPoint.position, oppositeDirection, live[i])}
  IN  IF adjacentElements = {} THEN FALSE
      ELSE ~ \E i \in adjacentElements :
               HasPointAt(live[i], connectionPoint.position, connectionPoint.direction)

shouldElementsConnect(W, connectionPoint, existingDoor) ==
  LET live == LiveElements(W)
  IN  \E i \in DOMAIN live :
         /\ Includes(existingDoor.connectedElements, live[i].id)
         /\ isPositionAdjacentToElement(connectionPoint.position,
              getOppositeDirection(connectionPoint.direction), live[i])

\* the points of a room moved with it to the position
createTempElementAtPosition(room, position) ==
  [room EXCEPT
     !.position = position,
     !.connectionPoints =
        [i \in DOMAIN room.connectionPoints |->
           [room.connectionPoints[i] EXCEPT
              !.position = Add(position, Sub(room.connectionPoints[i].position,
                                             room.position))]]]

\* the positions checkDoorConflicts reports as 'unexpected_door'
checkDoorConflicts(W, newElement, targetPosition) ==
  LET tempElement == createTempElementAtPosition(newElement, targetPosition)
  IN  {tempElement.connectionPoints[i].position :
         i \in {j \in DOMAIN tempElement.connectionPoints :
                  LET cp == tempElement.connectionPoints[j]
                  IN  /\ hasDoor(W.doors, cp.position, cp.direction)
                      /\ ~shouldElementsConnect(W, cp, W.doors[CpDoorId(cp)])}}

hasMinimumSpace(grid) == Cardinality(grid) >= 1

createTemporaryRoom(template, position) ==
  [id |-> RoomId(-1), position |-> position, width |-> template.width,
   height |-> template.height, templateId |-> template.id, hasPattern |-> FALSE,
   gridPattern |-> {},
   connectionPoints |->
     [i \in DOMAIN template.connectionPoints |->
        NewPoint(template.connectionPoints[i].direction,
                 Add(position, template.connectionPoints[i].position))]]

wouldConflictWithSolidWall(G, connectionPoint) ==
  wouldPlaceDoorAgainstSolidWall(G, connectionPoint)

isConnectionPointPositionValid(connectionPoint) ==
  isWithinBounds(connectionPoint.position)

\* the indices of the points validateConnectionPoints reports an error for
validateConnectionPoints(G, connectionPoints) ==
  {i \in DOMAIN connectionPoints :
     \/ wouldConflictWithSolidWall(G, connectionPoints[i])
     \/ ~isConnectionPointPositionValid(connectionPoints[i])}

validateRoomPlacement(G, template, position) ==
  LET grid == getAvailableRoomArea(G.occupied, position, template.width, template.height)
      tempRoom == createTemporaryRoom(template, position)
  IN  IF ~hasMinimumSpace(grid) THEN [isValid |-> FALSE]
      ELSE [isValid |->
              /\ validateConnectionPoints(G, tempRoom.connectionPoints) = {}
              /\ checkDoorConflicts(G, tempRoom, position) = {}]

(* ---------------------------------------------------------------------- *)
(* The generator as a state machine                                        *)
(* ---------------------------------------------------------------------- *)

VARIABLES
  rooms,             \* the authoritative room list
  corridors,         \* the authoritative corridor list
  roomCounter,
  explorationState,
  occupied,          \* GridManager.occupiedPositions
  elements,          \* SharedWallManager.elements, as ids
  doors,             \* DoorRegistry.doors
  call,              \* the openDoor call in progress: its element and point
  forcedFailures,    \* failures forced inside integrateGeneratedElements so far
  expansion,         \* the expandRoom call in progress: its context and locals
  last               \* the last operation and how it ended

vars == <<rooms, corridors, roomCounter, explorationState, occupied,
          elements, doors, call, forcedFailures, expansion, last>>

NoCall == [elem |-> NoId, idx |-> 0]

\* no expandRoom call is being followed
NoExpansion == [running |-> FALSE]

NoOp ==
  [op |-> "none", elem |-> NoId, idx |-> 0, outcome |-> "none",
   cause |-> "none", template |-> "none", targetPosition |-> <<0, 0>>]

Current ==
  [rooms |-> rooms, corridors |-> corridors, roomCounter |-> roomCounter,
   explorationState |-> explorationState, occupied |-> occupied,
   elements |-> elements, doors |-> doors]

Install(G) ==
  /\ rooms' = G.rooms
  /\ corridors' = G.corridors
  /\ roomCounter' = G.roomCounter
  /\ explorationState' = G.explorationState
  /\ occupied' = G.occupied
  /\ elements' = G.elements
  /\ doors' = G.doors

Init ==
  /\ rooms = << >>
  /\ corridors = << >>
  /\ roomCounter = 0
  /\ explorationState = EmptyExploration
  /\ occupied = {}
  /\ elements = << >>
  /\ doors = << >>
  /\ call = NoCall
  /\ forcedFailures = 0
  /\ expansion = NoExpansion
  /\ last = NoOp

SetPointState(G, id, index, state) ==
  SetConnectionPoints(G, id,
    [GetElement(G, id).connectionPoints EXCEPT ![index].state = state])

\* GridManager.reset()
resetGrid(G) == [G EXCEPT !.occupied = {}]

\* reset() without the reset of the Shared Wall Manager
reset_KeepWalls(G) ==
  [resetGrid(G) EXCEPT
     !.rooms = << >>, !.corridors = << >>, !.roomCounter = 0,
     !.explorationState = EmptyExploration]

\* reset()
reset(G) ==
  [resetWalls(resetGrid(G)) EXCEPT
     !.rooms = << >>, !.corridors = << >>, !.roomCounter = 0,
     !.explorationState = EmptyExploration]

\* generateInitialDungeon(), the entrance template drawn at random
generateInitialDungeon(G, template) ==
  LET G0 == reset(G)
      entranceRoom == generateEntranceRoom(G0, template)
  IN  CommitElement([G0 EXCEPT !.roomCounter = G0.roomCounter + 1],
                    entranceRoom, FALSE)

\* last.idx records how many elements were placed when the call was made
GenerateInitialDungeon(t) ==
  /\ call = NoCall
  /\ Install(generateInitialDungeon(Current, EntranceTemplates[t]))
  /\ call' = NoCall
  /\ forcedFailures' = 0
  /\ UNCHANGED expansion
  /\ last' = [NoOp EXCEPT !.op = "generateInitialDungeon",
                          !.elem = RoomId(0), !.outcome = "initialized",
                          !.idx = Len(rooms) + Len(corridors)]

\* OpenDoorBranch without the check that the door is already open or generated
OpenDoorBranch_NoDoorCheck(G, cp) ==
  IF cp.state = "generating" \/ cp.state = "connected" THEN "sync"
  ELSE "generate"

\* OpenDoorBranch with the first check testing Generating only
OpenDoorBranch_GeneratingOnly(G, cp) ==
  IF cp.state = "generating" THEN "sync"
  ELSE IF \/ getDoorState(G.doors, cp.position, cp.direction) = "open"
          \/ isDoorGenerated(G.doors, cp.position, cp.direction)
          \/ cp.isGenerated
       THEN "connect"
       ELSE "generate"

\* which way openDoor goes for the point, up to its call of generateFromConnectionPoint
OpenDoorBranch(G, cp) ==
  IF cp.state = "generating" \/ cp.state = "connected" THEN "sync"
  ELSE IF \/ getDoorState(G.doors, cp.position, cp.direction) = "open"
          \/ isDoorGenerated(G.doors, cp.position, cp.direction)
          \/ cp.isGenerated
       THEN "connect"
       ELSE "generate"

\* openDoor up to its call of generateFromConnectionPoint: the caller passes
\* point index of element id, with the element's id and local door id
openDoorBegin(G, id, index) ==
  LET cp == GetElement(G, id).connectionPoints[index]
      G1 == [G EXCEPT !.explorationState.doorStates =
                        (LocalDoorId(id, index - 1) :> "open") @@ @]
      branch == OpenDoorBranch(G1, cp)
  IN  IF branch = "sync" THEN syncAllDoorStates(G1)
      ELSE IF branch = "connect"
           THEN syncAllDoorStates(SetPointState(G1, id, index, "connected"))
           ELSE SetPointState(G1, id, index, "generating")

OpenDoorBegin(id, index) ==
  /\ call = NoCall
  /\ HasElement(Current, id)
  /\ index \in DOMAIN GetElement(Current, id).connectionPoints
  /\ LET branch == OpenDoorBranch(Current, GetElement(Current, id).connectionPoints[index])
     IN  /\ Install(openDoorBegin(Current, id, index))
         /\ call' = IF branch = "generate" THEN [elem |-> id, idx |-> index] ELSE NoCall
         /\ UNCHANGED <<forcedFailures, expansion>>
         /\ last' = [NoOp EXCEPT !.op = "openDoor", !.elem = id, !.idx = index,
                       !.outcome = CASE branch = "sync" -> "synced"
                                     [] branch = "connect" -> "connected"
                                     [] OTHER -> "generating"]

\* the point of the pending openDoor call
PendingPoint == GetElement(Current, call.elem).connectionPoints[call.idx]

\* how generateFromConnectionPoint ends for the content and the forced failure
GenerationOutcome(content, failAt) ==
  IF content.thrown THEN "rolledback"
  ELSE IF Len(content.rooms) = 0 /\ Len(content.corridors) = 0 THEN "noop"
  ELSE IF failAt = "none" THEN "generated"
  ELSE "rolledback"

\* generateFromConnectionPoint without the early return on an empty result
generateFromConnectionPoint_NoEmptyTest(G, cp, sourceElementId, content, failAt) ==
  LET stateSnapshot == [rooms |-> G.rooms, corridors |-> G.corridors,
                        roomCounter |-> G.roomCounter,
                        explorationState |-> G.explorationState]
      outcome == GenerationOutcome(content, failAt)
  IN  IF content.thrown
      THEN rollbackToSnapshot([G EXCEPT !.roomCounter = content.roomCounter],
                              stateSnapshot)
      ELSE IF outcome = "generated" \/ outcome = "noop"
      THEN integrateGeneratedElements(G, content, cp, sourceElementId, "none")
      ELSE rollbackToSnapshot(
             integrateGeneratedElements(G, content, cp, sourceElementId, failAt),
             stateSnapshot)

\* generateFromConnectionPoint(request), content being what
\* generateConnectedContent returns for the request's point and seed
generateFromConnectionPoint(G, cp, sourceElementId, content, failAt) ==
  LET stateSnapshot == [rooms |-> G.rooms, corridors |-> G.corridors,
                        roomCounter |-> G.roomCounter,
                        explorationState |-> G.explorationState]
      outcome == GenerationOutcome(content, failAt)
  IN  IF content.thrown
      THEN rollbackToSnapshot([G EXCEPT !.roomCounter = content.roomCounter],
                              stateSnapshot)
      ELSE IF outcome = "noop" THEN G
      ELSE IF outcome = "generated"
      THEN integrateGeneratedElements(G, content, cp, sourceElementId, "none")
      ELSE rollbackToSnapshot(
             integrateGeneratedElements(G, content, cp, sourceElementId, failAt),
             stateSnapshot)

\* the state openDoor leaves the caller's point in once
\* generateFromConnectionPoint has returned
StateAfterGeneration(outcome) == "connected"

\* the rest of openDoor without the assignment that follows a generation
\* that was rolled back
openDoorGenerate_StateOnSuccess(G, id, index, content, failAt) ==
  LET cp == GetElement(G, id).connectionPoints[index]
      outcome == GenerationOutcome(content, failAt)
      G1 == generateFromConnectionPoint(G, cp, id, content, failAt)
  IN  IF outcome = "rolledback"
      THEN G1
      ELSE SetPointState(G1, id, index, StateAfterGeneration(outcome))

\* the rest of openDoor: generateFromConnectionPoint and the state it leaves
openDoorGenerate(G, id, index, content, failAt) ==
  LET cp == GetElement(G, id).connectionPoints[index]
      outcome == GenerationOutcome(content, failAt)
      G1 == generateFromConnectionPoint(G, cp, id, content, failAt)
      snap == [rooms |-> G.rooms, corridors |-> G.corridors]
  IN  IF outcome = "rolledback" /\ ReplacedByRollback(G, snap, id, index)
      THEN G1
      ELSE SetPointState(G1, id, index, StateAfterGeneration(outcome))

\* the rest of an openDoor call that generates; failAt is "none", or the point
\* inside integrateGeneratedElements where a failure is forced; the call is
\* followed while fewer than maxElements elements are placed
OpenDoorGenerateWithin(maxElements, seedNum, failAt) ==
  /\ call # NoCall
  /\ Len(rooms) + Len(corridors) < maxElements
  /\ \E content \in {generateConnectedContent(Current, PendingPoint, seedNum)} :
     LET outcome == GenerationOutcome(content, failAt)
     IN  /\ failAt # "none" =>
              /\ forcedFailures < MaxForcedFailures
              /\ ~content.thrown
              /\ outcome = "rolledback"
         /\ Install(openDoorGenerate(Current, call.elem, call.idx, content, failAt))
         /\ forcedFailures' = IF failAt = "none" THEN forcedFailures
                              ELSE forcedFailures + 1
         /\ call' = NoCall
         /\ UNCHANGED expansion
         /\ last' = [op |-> "openDoor", elem |-> call.elem, idx |-> call.idx,
                     outcome |-> outcome,
                     cause |-> IF outcome # "rolledback" THEN "none"
                               ELSE IF content.thrown THEN "generation"
                               ELSE "integration",
                     template |-> content.template,
                     targetPosition |-> content.targetPosition]

OpenDoorGenerate(seedNum, failAt) ==
  OpenDoorGenerateWithin(MaxElements, seedNum, failAt)

\* a click on any door of any placed element
OpenDoor ==
  \E i \in DOMAIN (rooms \o corridors) :
     \E index \in DOMAIN (rooms \o corridors)[i].connectionPoints :
        OpenDoorBegin((rooms \o corridors)[i].id, index)

Next ==
  \/ \E t \in DOMAIN EntranceTemplates : GenerateInitialDungeon(t)
  \/ OpenDoor
  \/ \E seedNum \in 0 .. MaxSeedNum - 1 : OpenDoorGenerate(seedNum, "none")

\* the generator as it runs
Spec == Init /\ [][Next]_vars

NextFailing ==
  \/ \E t \in DOMAIN EntranceTemplates : GenerateInitialDungeon(t)
  \/ OpenDoor
  \/ \E seedNum \in 0 .. MaxSeedNum - 1 : \E failAt \in FailurePoints \cup {"none"} :
       OpenDoorGenerate(seedNum, failAt)

\* the generator with failures forced inside integrateGeneratedElements
SpecFailing == Init /\ [][NextFailing]_vars

\* the seed numbers that make generateConnectedContent try a room, one for
\* each standard template
RoomSeeds ==
  {seedNum \in 0 .. MaxSeedNum - 1 :
     /\ seedNum % 10 < ROOM_GENERATION_THRESHOLD
     /\ seedNum < Len(StandardTemplates)}

\* a longer exploration, every generation trying a room
OpenDoorGenerateRoom ==
  \E seedNum \in RoomSeeds : OpenDoorGenerateWithin(MaxRoomElements, seedNum, "none")

NextRooms ==
  \/ \E t \in DOMAIN EntranceTemplates : GenerateInitialDungeon(t)
  \/ OpenDoor
  \/ OpenDoorGenerateRoom

\* the generator as it runs on seeds that choose rooms
SpecRooms == Init /\ [][NextRooms]_vars

(* ---------------------------------------------------------------------- *)
(* generateConnectedContent as a function of the seed string               *)
(* ---------------------------------------------------------------------- *)

\* the character codes of '1', '3' and 'o': "31" and "1o" hash to one number
SeedAlphabet == {49, 51, 111}

Seeds == UNION {[1 .. n -> SeedAlphabet] : n \in 1 .. MaxSeedLen}

\* what generateConnectedContent chose: the branch, the template a room was
\* grown in, the corridor length asked for
ChoiceOf(content) ==
  [branch |-> IF content.template # "none" THEN "room" ELSE "corridor",
   template |-> content.template,
   corridorLength |-> content.corridorLength]

\* the record of a run: what was returned and chosen, and whether the run
\* before it had the same seed or a seed with the same number
RunRecord(content, seed, seedNum) ==
  [op |-> "generateConnectedContent",
   elem |-> call.elem, idx |-> call.idx,
   outcome |-> IF content.thrown THEN "thrown"
               ELSE IF Len(content.rooms) > 0 THEN "room"
               ELSE IF Len(content.corridors) > 0 THEN "corridor"
               ELSE "nothing",
   cause |-> "none",
   template |-> content.template,
   targetPosition |-> content.targetPosition,
   seed |-> seed,
   seedNum |-> seedNum,
   choice |-> ChoiceOf(content),
   repeats |-> IF last.op # "generateConnectedContent" THEN "nothing"
               ELSE IF last.seed = seed THEN "seed"
               ELSE IF last.seedNum = seedNum THEN "number"
               ELSE "nothing"]

\* one run of generateConnectedContent for the point of the pending openDoor
\* call, from the generator state as it is; the run is recorded and the state
\* it started from is kept, so that the next run starts from the same state
GenerateConnectedContent(seed) ==
  /\ call # NoCall
  /\ \E content \in {generateConnectedContentOfSeed(Current, PendingPoint, seed)} :
        last' = RunRecord(content, seed, seedToNumber(seed))
  /\ UNCHANGED <<rooms, corridors, roomCounter, explorationState, occupied,
                 elements, doors, call, forcedFailures, expansion>>

NextSeed ==
  \/ \E t \in DOMAIN EntranceTemplates : GenerateInitialDungeon(t)
  \/ OpenDoor
  \/ \E seed \in Seeds : GenerateConnectedContent(seed)

\* runs of generateConnectedContent on the entrance room's points
SpecSeed == Init /\ [][NextSeed]_vars

(* ---------------------------------------------------------------------- *)
(* The Door Registry driven on its own                                     *)
(* ---------------------------------------------------------------------- *)

\* location n: cell ((n - 1) div 2, 0), facing north for odd n, south for even
RegistryLocations ==
  {[position |-> <<(n - 1) \div 2, 0>>,
    direction |-> IF n % 2 = 1 THEN "north" ELSE "south"] :
     n \in 1 .. MaxRegistryLocations}

RegistryElements == {RoomId(n) : n \in 0 .. MaxRegistryElements - 1}

\* the connection point lists handed to connectElementToExistingDoors: one
\* point, or two points of one cell, the same location twice included
RegistryPointLists ==
  {<<NewPoint(l.direction, l.position)>> : l \in RegistryLocations}
  \cup {<<NewPoint(l[1].direction, l[1].position),
           NewPoint(l[2].direction, l[2].position)>> :
           l \in {m \in RegistryLocations \X RegistryLocations :
                    m[1].position = m[2].position}}

RegistryUnchanged ==
  UNCHANGED <<rooms, corridors, roomCounter, explorationState, occupied,
              elements, call, forcedFailures, expansion>>

RegisterDoor(location, elementId) ==
  /\ doors' = registerDoor(doors, location.position, location.direction,
                           elementId, "closed")
  /\ last' = [NoOp EXCEPT !.op = "registerDoor"]
  /\ RegistryUnchanged

ConnectElementToExistingDoors(elementId, connectionPoints) ==
  /\ doors' = connectDoors(doors, elementId, connectionPoints)
  /\ last' = [NoOp EXCEPT !.op = "connectElementToExistingDoors"]
  /\ RegistryUnchanged

RemoveElementFromDoors(elementId) ==
  /\ doors' = removeElementFromDoors(doors, elementId)
  /\ last' = [NoOp EXCEPT !.op = "removeElementFromDoors", !.elem = elementId]
  /\ RegistryUnchanged

Clear ==
  /\ doors' = clearDoors(doors)
  /\ last' = [NoOp EXCEPT !.op = "clear"]
  /\ RegistryUnchanged

NextRegistry ==
  \/ \E l \in RegistryLocations : \E e \in RegistryElements : RegisterDoor(l, e)
  \/ \E e \in RegistryElements : \E cps \in RegistryPointLists :
        ConnectElementToExistingDoors(e, cps)
  \/ \E e \in RegistryElements : RemoveElementFromDoors(e)
  \/ Clear

\* any sequence of calls on a Door Registry
SpecRegistry == Init /\ [][NextRegistry]_vars

(* ---------------------------------------------------------------------- *)
(* seedToNumber on seeds long enough for the hash to wrap                  *)
(* ---------------------------------------------------------------------- *)

HashSeeds == UNION {[1 .. n -> SeedAlphabet] : n \in 0 .. MaxHashLen}

SeedToNumber(seed) ==
  /\ last' = [op |-> "seedToNumber", seed |-> seed,
              seedNum |-> seedToNumber(seed)]
  /\ UNCHANGED doors
  /\ RegistryUnchanged

\* one call of seedToNumber, on any of the seeds
NextHash ==
  /\ last = NoOp
  /\ \E seed \in HashSeeds : SeedToNumber(seed)

\* seedToNumber on its own
SpecHash == Init /\ [][NextHash]_vars

(* ---------------------------------------------------------------------- *)
(* The Shared Wall Manager on its own: rooms holds the objects its element *)
(* list refers to                                                          *)
(* ---------------------------------------------------------------------- *)

DoorStates == {"closed", "open", "locked"}

\* an element handed to addElement: a room of one cell with the given points
WallElement(id, connectionPoints) ==
  [id |-> id, position |-> connectionPoints[1].position, width |-> 1,
   height |-> 1, templateId |-> "none", hasPattern |-> FALSE,
   gridPattern |-> {}, connectionPoints |-> connectionPoints]

WallsUnchanged ==
  UNCHANGED <<corridors, roomCounter, explorationState, occupied, call,
              forcedFailures, expansion>>

\* addElement(element) for an element that is not in the list
AddElement(id, connectionPoints) ==
  /\ ~Includes(elements, id)
  /\ \E W \in {addElement([Current EXCEPT
                    !.rooms = Append(@, WallElement(id, connectionPoints))], id)} :
        /\ rooms' = W.rooms
        /\ elements' = W.elements
        /\ doors' = W.doors
  /\ last' = [NoOp EXCEPT !.op = "addElement", !.elem = id]
  /\ WallsUnchanged

\* removeElement(elementId); the object leaves with its reference
RemoveElement(id) ==
  /\ \E W \in {removeElement(Current, id)} :
        /\ rooms' = Filter(rooms, [i \in DOMAIN rooms |-> rooms[i].id # id])
        /\ elements' = W.elements
        /\ doors' = W.doors
  /\ last' = [NoOp EXCEPT !.op = "removeElement", !.elem = id]
  /\ WallsUnchanged

UpdateDoorState(location, state) ==
  /\ doors' = updateDoorState(doors, location.position, location.direction, state)
  /\ last' = [NoOp EXCEPT !.op = "updateDoorState"]
  /\ UNCHANGED <<rooms, elements>>
  /\ WallsUnchanged

ResetWalls ==
  /\ \E W \in {resetWalls(Current)} :
        /\ elements' = W.elements
        /\ doors' = W.doors
  /\ rooms' = << >>
  /\ last' = [NoOp EXCEPT !.op = "reset"]
  /\ WallsUnchanged

NextWalls ==
  \/ \E e \in RegistryElements : \E cps \in RegistryPointLists : AddElement(e, cps)
  \/ \E e \in RegistryElements : RemoveElement(e)
  \/ \E l \in RegistryLocations : \E state \in DoorStates : UpdateDoorState(l, state)
  \/ ResetWalls

\* any sequence of calls on a Shared Wall Manager
SpecWalls == Init /\ [][NextWalls]_vars

(* ---------------------------------------------------------------------- *)
(* expandRoom followed pass by pass, on masks, grids and occupancies of    *)
(* its own                                                                 *)
(* ---------------------------------------------------------------------- *)

\* every mask that fits the largest template, as a template without doors
ExpansionTemplates ==
  {[id |-> "mask", type |-> "standard",
    width |-> MaxMaskWidth, height |-> MaxMaskHeight,
    gridPattern |-> m, connectionPoints |-> << >>] :
     m \in SUBSET FullPattern(MaxMaskWidth, MaxMaskHeight) \ {{}}}

\* where the template is put: inside the grid, across its low edge, across
\* its high corner
ExpansionTargets == {<<0, 0>>, <<-1, 0>>, <<GridSize - 2, GridSize - 1>>}

\* the world cells of the template put at the position
ExpansionWindow(targetPosition) ==
  {Add(targetPosition, c) : c \in FullPattern(MaxMaskWidth, MaxMaskHeight)}

ExpansionOccupancies ==
  {S \in SUBSET {c \in UNION {ExpansionWindow(t) : t \in ExpansionTargets} :
                    isWithinBounds(c)} :
     Cardinality(S) <= MaxOccupied}

InitExpand ==
  /\ rooms = << >>
  /\ corridors = << >>
  /\ roomCounter = 0
  /\ explorationState = EmptyExploration
  /\ occupied \in ExpansionOccupancies
  /\ elements = << >>
  /\ doors = << >>
  /\ call = NoCall
  /\ forcedFailures = 0
  /\ expansion = NoExpansion
  /\ last = NoOp

ExpansionUnchanged ==
  UNCHANGED <<rooms, corridors, roomCounter, explorationState, occupied,
              elements, doors, call, forcedFailures>>

\* expandRoom(context) up to its while loop
ExpandRoom(entryPoint, entryDirection, geomorphBounds, targetPosition) ==
  /\ ~expansion.running
  /\ \E ctx \in {[entryPoint |-> entryPoint, entryDirection |-> entryDirection,
                  geomorphBounds |-> geomorphBounds,
                  targetPosition |-> targetPosition, occupied |-> occupied]} :
       expansion' =
         [running |-> TRUE, returned |-> FALSE, ctx |-> ctx,
          frontier |-> ExpandStart(ctx).frontier,
          expandedBlocks |-> ExpandStart(ctx).blocks,
          pushed |-> ExpandStart(ctx).frontier, iterations |-> 0]
  /\ last' = [NoOp EXCEPT !.op = "expandRoom", !.outcome = "expanding"]
  /\ ExpansionUnchanged

\* one pass of the while loop; pushed lists every frontier.push so far
ExpandIterate ==
  /\ expansion.running
  /\ expansion.frontier # << >>
  /\ \E next \in {ExpandIteration(expansion.frontier, expansion.expandedBlocks,
                                   expansion.ctx)} :
         expansion' =
           [expansion EXCEPT
              !.frontier = next.frontier,
              !.expandedBlocks = next.blocks,
              !.pushed = @ \o SubSeq(next.blocks, Len(expansion.expandedBlocks) + 1,
                                     Len(next.blocks)),
              !.iterations = @ + 1]
  /\ UNCHANGED last
  /\ ExpansionUnchanged

\* the loop has ended: expandRoom returns expandedPositions
ExpandReturn ==
  /\ expansion.running
  /\ expansion.frontier = << >>
  /\ ~expansion.returned
  /\ expansion' = [expansion EXCEPT !.returned = TRUE]
  /\ last' = [NoOp EXCEPT !.op = "expandRoom", !.outcome = "returned"]
  /\ ExpansionUnchanged

\* a call of expandRoom on any mask, position, entry cell and entry direction
ExpandAnyRoom ==
  /\ ~expansion.running
  /\ \E geomorphBounds \in ExpansionTemplates :
       \E targetPosition \in ExpansionTargets :
         \E entryPoint \in ExpansionWindow(targetPosition) :
           \E entryDirection \in Cardinals :
             ExpandRoom(entryPoint, entryDirection, geomorphBounds, targetPosition)

NextExpand ==
  \/ ExpandAnyRoom
  \/ ExpandIterate
  \/ ExpandReturn

\* expandRoom on its own
SpecExpand == InitExpand /\ [][NextExpand]_vars

\* the loop is sequential code: a pass that can run does run
SpecExpandFair == SpecExpand /\ WF_vars(ExpandIterate)

(* ---------------------------------------------------------------------- *)
(* The Position Calculator on templates and source points of its own       *)
(* ---------------------------------------------------------------------- *)

\* the template connection points: any direction at any cell of the mask
TemplatePoints ==
  {[direction |-> d, position |-> c] :
     d \in Cardinals, c \in FullPattern(MaxMaskWidth, MaxMaskHeight)}

TemplatePointLists ==
  UNION {[1 .. n -> TemplatePoints] : n \in 0 .. MaxTemplatePoints}

\* the full template of the largest size with the connection points
TemplateWith(connectionPoints) ==
  [id |-> "points", type |-> "standard",
   width |-> MaxMaskWidth, height |-> MaxMaskHeight,
   gridPattern |-> FullPattern(MaxMaskWidth, MaxMaskHeight),
   connectionPoints |-> connectionPoints]

\* where the source connection point lies
SourcePositions == {<<0, 0>>, <<GridSize \div 2, 1>>, <<GridSize - 1, GridSize - 1>>}

PositionUnchanged ==
  UNCHANGED <<rooms, corridors, roomCounter, explorationState, occupied,
              elements, doors, call, forcedFailures, expansion>>

CalculateRoomPositionFromConnection(connectionPoint, template) ==
  /\ \E calc \in {calculateRoomPositionFromConnection(connectionPoint, template)} :
       last' = [op |-> "calculateRoomPositionFromConnection",
                direction |-> connectionPoint.direction,
                position |-> connectionPoint.position,
                templatePoints |-> template.connectionPoints,
                roomPosition |-> calc.roomPosition,
                connectingPointIndex |-> calc.connectingPointIndex]
  /\ PositionUnchanged

GetDoorPositionAdjustment(sourceDirection, templateDirection) ==
  /\ last' = [op |-> "getDoorPositionAdjustment",
              sourceDirection |-> sourceDirection,
              templateDirection |-> templateDirection,
              adjustment |-> getDoorPositionAdjustment(sourceDirection,
                                                       templateDirection)]
  /\ PositionUnchanged

\* one call of either function, on any of the inputs
NextPosition ==
  /\ last = NoOp
  /\ \/ \E position \in SourcePositions : \E direction \in Cardinals :
          \E connectionPoints \in TemplatePointLists :
             CalculateRoomPositionFromConnection(NewPoint(direction, position),
                                                 TemplateWith(connectionPoints))
     \/ \E sourceDirection \in Cardinals : \E templateDirection \in Cardinals :
          GetDoorPositionAdjustment(sourceDirection, templateDirection)

\* the Position Calculator on its own
SpecPosition == Init /\ [][NextPosition]_vars

(* ---------------------------------------------------------------------- *)
(* The Connection Point Validator on templates and grids of its own        *)
(* ---------------------------------------------------------------------- *)

\* template points in the template's bounds, left of them and below them
ValidatorPoints ==
  {[direction |-> d, position |-> c] :
     d \in Cardinals,
     c \in FullPattern(MaxMaskWidth, MaxMaskHeight)
           \cup {<<-1, 0>>, <<0, MaxMaskHeight>>}}

ValidatorPointLists ==
  UNION {[1 .. n -> ValidatorPoints] : n \in 0 .. MaxTemplatePoints}

\* the area with up to MaxOccupied cells not available
AvailableGrids ==
  {FullPattern(MaxMaskWidth, MaxMaskHeight) \ S :
     S \in {T \in SUBSET FullPattern(MaxMaskWidth, MaxMaskHeight) :
              Cardinality(T) <= MaxOccupied}}

TrimmedPatterns == SUBSET FullPattern(MaxMaskWidth, MaxMaskHeight)

\* the original indices (from 0) of the points the filter keeps
KeptIndices(template, availableGrid, trimmedPattern, preserveConnectionIndex) ==
  LET cps == template.connectionPoints
  IN  Filter([i \in DOMAIN cps |-> i - 1], [i \in DOMAIN cps |->
        KeepsConnectionPoint(template, availableGrid, trimmedPattern,
                             preserveConnectionIndex, i)])

ValidateConnectionPoints(template, availableGrid, trimmedPattern, preserveConnectionIndex) ==
  /\ last' = [op |-> "validateConnectionPoints",
              templatePoints |-> template.connectionPoints,
              availableGrid |-> availableGrid,
              trimmedPattern |-> trimmedPattern,
              preserveConnectionIndex |-> preserveConnectionIndex,
              kept |-> KeptIndices(template, availableGrid, trimmedPattern,
                                   preserveConnectionIndex),
              result |-> validateTemplateConnectionPoints(
                           template, availableGrid, trimmedPattern,
                           preserveConnectionIndex)]
  /\ PositionUnchanged

\* one call of validateConnectionPoints, on any of the inputs
NextValidator ==
  /\ last = NoOp
  /\ \E connectionPoints \in ValidatorPointLists :
       \E availableGrid \in AvailableGrids : \E trimmedPattern \in TrimmedPatterns :
          \E preserveConnectionIndex \in -1 .. Len(connectionPoints) - 1 :
             ValidateConnectionPoints(TemplateWith(connectionPoints), availableGrid,
                                      trimmedPattern, preserveConnectionIndex)

\* the Connection Point Validator on its own
SpecValidator == Init /\ [][NextValidator]_vars

(* ---------------------------------------------------------------------- *)
(* Views of the state the properties are stated over                       *)
(* ---------------------------------------------------------------------- *)

Placed == rooms \o corridors

\* the point an openDoor call was made on
PointOf(G, id, index) == GetElement(G, id).connectionPoints[index]

\* an element's connection points without their state field
FlagsOf(el) ==
  [i \in DOMAIN el.connectionPoints |->
     [direction |-> el.connectionPoints[i].direction,
      position |-> el.connectionPoints[i].position,
      isConnected |-> el.connectionPoints[i].isConnected,
      connectedElementId |-> el.connectionPoints[i].connectedElementId,
      isGenerated |-> el.connectionPoints[i].isGenerated]]

\* a list of elements by content, the state field of the points left aside
ByContent(els) ==
  [i \in DOMAIN els |-> [id |-> els[i].id, cells |-> ElementCells(els[i]),
                         points |-> FlagsOf(els[i])]]

\* the registry by content: keys, states, connected elements, isGenerated
RegistryContent(ds) ==
  [k \in DOMAIN ds |-> [state |-> ds[k].state,
                        connectedElements |-> Range(ds[k].connectedElements),
                        isGenerated |-> ds[k].isGenerated]]

\* an openDoor call has just been made up to its decision to generate or not
OpenDoorCalled == call = NoCall /\ last'.op = "openDoor"

\* generateFromConnectionPoint has just run and rolled back
RolledBack == call # NoCall /\ last'.outcome = "rolledback"

\* the cell of the template's first point facing the direction, the template
\* placed at the position
FacingCell(template, position, direction) ==
  LET C == {i \in DOMAIN template.connectionPoints :
              template.connectionPoints[i].direction = direction}
  IN  Add(position, template.connectionPoints[MinOf(C)].position)

\* all four neighbours of the cell are occupied, off the grid or outside the
\* mask of the template placed at the position
BoxedIn(occ, cell, template, position) ==
  \A n \in Range(getNeighbors(cell)) :
     \/ n \in occ
     \/ ~isWithinBounds(n)
     \/ Sub(n, position) \notin template.gridPattern

\* the points of two distinct placed elements at one cell, facing opposite ways
OppositePoints ==
  LET Pairs(i, j) == {<<i, a, j, b>> : a \in DOMAIN Placed[i].connectionPoints,
                                        b \in DOMAIN Placed[j].connectionPoints}
      All == UNION {UNION {Pairs(i, j) : j \in DOMAIN Placed \ {i}} : i \in DOMAIN Placed}
  IN  {q \in All :
         /\ Placed[q[1]].connectionPoints[q[2]].position =
              Placed[q[3]].connectionPoints[q[4]].position
         /\ Placed[q[1]].connectionPoints[q[2]].direction =
              getOppositeDirection(Placed[q[3]].connectionPoints[q[4]].direction)}

(* ---------------------------------------------------------------------- *)
(* Properties                                                              *)
(* ---------------------------------------------------------------------- *)

\* C1: the cells of any two distinct placed rooms or corridors are disjoint,
\* the entry cell of an expanded room and the first cell of a corridor included.
C1_NoOverlap ==
  \A i, j \in DOMAIN Placed :
     i # j => ElementCells(Placed[i]) \cap ElementCells(Placed[j]) = {}

\* C2: when a failure is forced inside integrateGeneratedElements, the rollback
\* leaves rooms, corridors, roomCounter, explorationState, the occupied set,
\* the manager's element list and the door records equal by content to what
\* they were just before generateFromConnectionPoint was called, the
\* isGenerated / isConnected flags of the existing elements' points included.
C2_RollbackIdempotence ==
  [][(RolledBack /\ last'.cause = "integration") =>
       /\ ByContent(rooms') = ByContent(rooms)
       /\ ByContent(corridors') = ByContent(corridors)
       /\ roomCounter' = roomCounter
       /\ explorationState' = explorationState
       /\ occupied' = occupied
       /\ Range(elements') = Range(elements)
       /\ RegistryContent(doors') = RegistryContent(doors)]_vars

\* C3: whenever content generation or integration throws, the call still
\* returns, and the rooms and corridors of the map it returns are equal by
\* content to those before the call.
C3_FailureLeavesMapUnchanged ==
  [][RolledBack =>
       /\ call' = NoCall
       /\ ByContent(rooms') = ByContent(rooms)
       /\ ByContent(corridors') = ByContent(corridors)]_vars

\* C4: when the generation openDoor started on an Ungenerated point fails and
\* is rolled back, the point is Ungenerated when openDoor returns, so that a
\* later openDoor on it attempts generation again.
C4_FailedPointUngenerated ==
  (last.op = "openDoor" /\ last.outcome = "rolledback") =>
     /\ PointOf(Current, last.elem, last.idx).state = "ungenerated"
     /\ OpenDoorBranch(Current, PointOf(Current, last.elem, last.idx)) = "generate"

\* C5: an openDoor call on a point that is Generating or Connected, or whose
\* door the manager reports Open or generated, generates nothing: rooms,
\* corridors, roomCounter, the occupied set and the registry are unchanged and
\* no generation is started. And a call that does add an element started from
\* a point not yet Connected and leaves it Connected, so that repeated calls
\* on one point add at most one element.
C5_IdempotenceGuard ==
  [][/\ (/\ OpenDoorCalled
         /\ HasElement(Current, last'.elem)
         /\ LET cp == PointOf(Current, last'.elem, last'.idx)
            IN  \/ cp.state \in {"generating", "connected"}
                \/ getDoorState(doors, cp.position, cp.direction) = "open"
                \/ isDoorGenerated(doors, cp.position, cp.direction))
        => /\ ByContent(rooms') = ByContent(rooms)
           /\ ByContent(corridors') = ByContent(corridors)
           /\ roomCounter' = roomCounter
           /\ occupied' = occupied
           /\ doors' = doors
           /\ call' = NoCall
     /\ (last'.op = "openDoor" /\ Len(Placed') > Len(Placed))
        => /\ Len(Placed') = Len(Placed) + 1
           /\ PointOf(Current, last'.elem, last'.idx).state = "generating"
           /\ PointOf(Current, last'.elem, last'.idx).isGenerated = FALSE
           /\ PointOf(Current', last'.elem, last'.idx).state = "connected"
           /\ PointOf(Current', last'.elem, last'.idx).isGenerated = TRUE
     /\ (OpenDoorCalled /\ call' # NoCall)
        => PointOf(Current, last'.elem, last'.idx).state = "ungenerated"]_vars

\* a repeated call on a point that has already generated an element
C5_Witness ==
  /\ last.op = "openDoor" /\ last.outcome = "synced"
  /\ Len(Placed) >= 2
  /\ PointOf(Current, last.elem, last.idx).state = "connected"
  /\ PointOf(Current, last.elem, last.idx).isGenerated

\* the state changes the point state machine allows
AllowedStateChange(from, to, doorOpenOrGenerated) ==
  \/ from = to
  \/ from = "ungenerated" /\ to = "generating"
  \/ from = "generating" /\ to = "connected"
  \/ from = "generating" /\ to = "ungenerated"
  \/ from = "ungenerated" /\ to = "connected" /\ doorOpenOrGenerated

C7_AutoOpenCompleteness ==
  \A q \in OppositePoints :
     LET a == Placed[q[1]].connectionPoints[q[2]]
         b == Placed[q[3]].connectionPoints[q[4]]
     IN  (Includes(elements, Placed[q[1]].id) /\ Includes(elements, Placed[q[3]].id)) =>
            /\ getDoorState(doors, a.position, a.direction) = "open"
            /\ a.isGenerated /\ a.isConnected
            /\ b.isGenerated /\ b.isConnected

\* C8: for two placed elements sharing a doorway, with points at (p, d) and
\* (p, opposite(d)), the registry holds exactly one record for the doorway,
\* the record lists both elements and only them, and getDoorState answers the
\* same from either side.
C8_SingleSharedRecord ==
  \A q \in OppositePoints :
     LET a == Placed[q[1]].connectionPoints[q[2]]
         b == Placed[q[3]].connectionPoints[q[4]]
         records == {CpDoorId(a), CpDoorId(b)} \cap DOMAIN doors
     IN  /\ Cardinality(records) = 1
         /\ \A k \in records :
               Range(doors[k].connectedElements) = {Placed[q[1]].id, Placed[q[3]].id}
         /\ getDoorState(doors, a.position, a.direction) =
              getDoorState(doors, b.position, b.direction)

\* C9: every point of every placed room is at a cell of the room's effective
\* pattern whose neighbour in the point's direction is outside the pattern.
C9_PerimeterOnlyDoors ==
  \A r \in DOMAIN rooms : \A c \in DOMAIN rooms[r].connectionPoints :
     LET cp == rooms[r].connectionPoints[c]
     IN  /\ cp.position \in RoomCells(rooms[r])
         /\ getAdjacentPosition(cp.position, cp.direction) \notin RoomCells(rooms[r])

\* C10: every room generateFromConnectionPoint pushes onto the rooms list is
\* one validateRoomPlacement accepts, for the room's template and placement
\* position, against the state before the commit.
C10_ValidateBeforeCommit ==
  [][(last'.op = "openDoor" /\ Len(rooms') > Len(rooms)) =>
       validateRoomPlacement(Current,
         getRoomTemplateById(rooms'[Len(rooms')].templateId),
         last'.targetPosition).isValid]_vars

C13_OpenDoorSetsOpen ==
  (last.op = "openDoor" /\ call = NoCall) =>
     /\ LocalDoorId(last.elem, last.idx - 1) \in DOMAIN explorationState.doorStates
     /\ explorationState.doorStates[LocalDoorId(last.elem, last.idx - 1)] = "open"

\* C14: when generateInitialDungeon or openDoor has returned, the entry of
\* explorationState.doorStates for every connection point of every placed
\* room and corridor equals the state getDoorState gives for the point's
\* position and direction.
C14_DoorStateProjection ==
  call = NoCall =>
     \A i \in DOMAIN Placed : \A c \in DOMAIN Placed[i].connectionPoints :
        /\ LocalDoorId(Placed[i].id, c - 1) \in DOMAIN explorationState.doorStates
        /\ explorationState.doorStates[LocalDoorId(Placed[i].id, c - 1)] =
              getDoorState(doors, Placed[i].connectionPoints[c].position,
                           Placed[i].connectionPoints[c].direction)

\* C15: generateInitialDungeon leaves exactly one room, of type Entrance, at
\* (floor(gridSize/2) - 3, floor(gridSize/2) - 2), and no corridor; every
\* connection point of the room is Ungenerated with isGenerated = isConnected
\* = FALSE, has a Closed entry in doorStates and appears exactly once in
\* unexploredConnectionPoints.
C15_InitialDungeon ==
  last.op = "generateInitialDungeon" =>
     /\ Len(rooms) = 1
     /\ corridors = << >>
     /\ rooms[1].type = "entrance"
     /\ rooms[1].position = <<(GridSize \div 2) - 3, (GridSize \div 2) - 2>>
     /\ \A c \in DOMAIN rooms[1].connectionPoints :
           LET cp == rooms[1].connectionPoints[c]
               unexplored == explorationState.unexploredConnectionPoints
           IN  /\ cp.state = "ungenerated"
               /\ ~cp.isGenerated /\ ~cp.isConnected
               /\ LocalDoorId(rooms[1].id, c - 1) \in DOMAIN explorationState.doorStates
               /\ explorationState.doorStates[LocalDoorId(rooms[1].id, c - 1)] = "closed"
               /\ Cardinality({j \in DOMAIN unexplored :
                                 /\ unexplored[j].position = cp.position
                                 /\ unexplored[j].direction = cp.direction}) = 1

\* the initial dungeon of a generator that had nothing placed
C15_Witness ==
  /\ last.op = "generateInitialDungeon"
  /\ last.idx = 0
  /\ Len(rooms) = 1 /\ Len(rooms[1].connectionPoints) >= 2

\* C16: generateInitialDungeon called in any reachable state leaves the state
\* it leaves when called on a fresh generator with the same entrance template:
\* roomCounter 1, the entrance room alone in rooms, no corridors, the
\* exploration state of the entrance room alone, the occupied set the room's
\* cells, and in the registry exactly one Closed door per entrance point.
C16_FullReset ==
  [][last'.op = "generateInitialDungeon" =>
       /\ \E t \in DOMAIN EntranceTemplates :
             Current' = generateInitialDungeon(FreshGenerator, EntranceTemplates[t])
       /\ roomCounter' = 1
       /\ Len(rooms') = 1 /\ corridors' = << >>
       /\ explorationState'.discoveredRoomIds = {rooms'[1].id}
       /\ explorationState'.discoveredCorridorIds = {}
       /\ DOMAIN explorationState'.doorStates =
             {LocalDoorId(rooms'[1].id, c - 1) : c \in DOMAIN rooms'[1].connectionPoints}
       /\ Len(explorationState'.unexploredConnectionPoints) =
             Len(rooms'[1].connectionPoints)
       /\ occupied' = RoomCells(rooms'[1])
       /\ elements' = <<rooms'[1].id>>
       /\ DOMAIN doors' =
             {CpDoorId(rooms'[1].connectionPoints[c]) :
                c \in DOMAIN rooms'[1].connectionPoints}
       /\ \A k \in DOMAIN doors' :
             /\ doors'[k].state = "closed"
             /\ doors'[k].connectedElements = <<rooms'[1].id>>
             /\ ~doors'[k].isGenerated]_vars

\* a reset of a generator that had three elements placed
C16_Witness ==
  /\ last.op = "generateInitialDungeon"
  /\ last.idx >= 3
  /\ Len(rooms) = 1 /\ roomCounter = 1

\* C17: when generateConnectedContent grows a room and all four neighbours of
\* the entry point are occupied, off the grid or outside the template mask,
\* it returns one room at the entry point, 1 wide and 1 high, with gridPattern
\* [[true]] and one connection point: at the entry point, facing
\* opposite(source direction), isConnected, isGenerated and Connected.
C17_BoxedInEntry ==
  call # NoCall =>
     \A seedNum \in 0 .. MaxSeedNum - 1 :
        LET cp == PendingPoint
            content == generateConnectedContent(Current, cp, seedNum)
        IN  content.template # "none" =>
              LET template == getRoomTemplateById(content.template)
                  entryPoint == FacingCell(template, content.targetPosition,
                                           getOppositeDirection(cp.direction))
              IN  BoxedIn(occupied, entryPoint, template, content.targetPosition) =>
                    /\ Len(content.rooms) = 1 /\ content.corridors = << >>
                    /\ content.rooms[1].position = entryPoint
                    /\ content.rooms[1].width = 1 /\ content.rooms[1].height = 1
                    /\ content.rooms[1].hasPattern
                    /\ content.rooms[1].gridPattern = {<<0, 0>>}
                    /\ Len(content.rooms[1].connectionPoints) = 1
                    /\ LET p == content.rooms[1].connectionPoints[1]
                       IN  /\ p.position = entryPoint
                           /\ p.direction = getOppositeDirection(cp.direction)
                           /\ p.isConnected /\ p.isGenerated
                           /\ p.state = "connected"

\* a room grown from a boxed-in entry point has been placed
C17_Witness ==
  /\ last.op = "openDoor" /\ last.outcome = "generated"
  /\ last.template # "none"
  /\ LET room == rooms[Len(rooms)]
     IN  /\ room.width = 1 /\ room.height = 1
         /\ Len(room.connectionPoints) = 1
         /\ BoxedIn(occupied, room.position, getRoomTemplateById(last.template),
                    last.targetPosition)

\* C18: when corridor generation is run and the adjusted starting cell is
\* inside the grid while the next cell in the travel direction is outside the
\* grid or occupied, a corridor whose path is just the starting cell is
\* returned; when the starting cell is outside the grid, nothing is returned.
C18_OneCellCorridor ==
  call # NoCall =>
     \A seedNum \in 0 .. MaxSeedNum - 1 :
        LET cp == PendingPoint
            content == generateConnectedContent(Current, cp, seedNum)
            start == Add(cp.position, directionToVector(cp.direction))
            next == Add(start, directionToVector(cp.direction))
        IN  content.template = "none" =>
              /\ (isWithinBounds(start) /\ (~isWithinBounds(next) \/ next \in occupied)) =>
                    /\ ~content.thrown
                    /\ content.rooms = << >>
                    /\ Len(content.corridors) = 1
                    /\ content.corridors[1].path = <<start>>
              /\ ~isWithinBounds(start) =>
                    /\ ~content.thrown
                    /\ content.rooms = << >> /\ content.corridors = << >>

\* C19: every connection point of a placed room or corridor with
\* isConnected = TRUE has a door record in the registry at its position and
\* direction, and the record's connectedElements holds the element's id.
C19_ConnectedHasDoor ==
  \A i \in DOMAIN Placed : \A c \in DOMAIN Placed[i].connectionPoints :
     LET cp == Placed[i].connectionPoints[c]
     IN  cp.isConnected =>
           /\ hasDoor(doors, cp.position, cp.direction)
           /\ Includes(doors[CpDoorId(cp)].connectedElements, Placed[i].id)

\* a generated element's entry point and the point it was generated from are
\* both connected
C19_Witness ==
  /\ last.op = "openDoor" /\ last.outcome = "generated"
  /\ PointOf(Current, last.elem, last.idx).isConnected
  /\ Placed[Len(Placed)].connectionPoints[1].isConnected
  /\ \E i \in DOMAIN Placed : Placed[i].id # last.elem

\* C20: after any sequence of registerDoor, connectElementToExistingDoors,
\* removeElementFromDoors and clear, no door lists an element twice, every
\* door lists at least one element, and after removeElementFromDoors(e) no
\* door lists e.
C20_RegistryMembership ==
  /\ \A k \in DOMAIN doors :
        /\ Len(doors[k].connectedElements) >= 1
        /\ \A i, j \in DOMAIN doors[k].connectedElements :
              doors[k].connectedElements[i] = doors[k].connectedElements[j] => i = j
  /\ last.op = "removeElementFromDoors" =>
        \A k \in DOMAIN doors : ~Includes(doors[k].connectedElements, last.elem)

\* an element has been removed and a door it shared with another element is
\* still in the registry
C20_Witness ==
  /\ last.op = "removeElementFromDoors"
  /\ \E k \in DOMAIN doors : Len(doors[k].connectedElements) >= 1
  /\ Cardinality(DOMAIN doors) < MaxRegistryLocations

\* C21: after a generation that succeeded from point c of an element,
\* unexploredConnectionPoints holds no entry at c's position and direction
\* and no entry whose door is Open in the registry; the caller passes the
\* element's own point, which carries no generationSeed.
C21_ResolvedPointsLeaveUnexplored ==
  (last.op = "openDoor" /\ last.outcome = "generated") =>
     LET c == PointOf(Current, last.elem, last.idx)
         unexplored == explorationState.unexploredConnectionPoints
     IN  \A i \in DOMAIN unexplored :
            /\ ~(unexplored[i].position = c.position
                 /\ unexplored[i].direction = c.direction)
            /\ getDoorState(doors, unexplored[i].position,
                            unexplored[i].direction) # "open"

\* the world cells of every placed room's effective mask and of every placed
\* corridor's path
PlacedCells == UNION {ElementCells(Placed[i]) : i \in DOMAIN Placed}

\* C22: after every public generator operation, one that rolled back
\* included, the Grid Tracker's occupied set is exactly the union of the
\* world cells of the placed rooms' effective masks and of the placed
\* corridors' paths.
C22_DerivedOccupancy ==
  call = NoCall => occupied = PlacedCells

\* an integration has failed and been rolled back with several elements placed
C22_Witness ==
  /\ call = NoCall
  /\ last.outcome = "rolledback" /\ last.cause = "integration"
  /\ Len(Placed) >= 2
  /\ occupied = PlacedCells

\* C23: in every reachable generator state validateDoorConsistency() returns
\* no issue: no cell has registry doors facing both north and south or both
\* east and west, and every element id a door lists is the id of an element
\* of the Shared Wall Manager's live list.
C23_RegistryConsistency ==
  /\ validateDoorConsistency(Current) = {}
  /\ \A k \in DOMAIN doors :
        /\ ~hasConflictingDoors(doors, k[1])
        /\ \A i \in DOMAIN doors[k].connectedElements :
              Includes(elements, doors[k].connectedElements[i])

\* admissible, in the words of the expansion rule: the cell indexes a true
\* cell of the template mask, is inside the grid and is not occupied
Admissible(cell, ctx) ==
  /\ Sub(cell, ctx.targetPosition) \in ctx.geomorphBounds.gridPattern
  /\ isWithinBounds(cell)
  /\ cell \notin ctx.occupied

RECURSIVE ReachableFrom(_, _)
\* the cells reachable from the set through 4-adjacent steps over admissible cells
ReachableFrom(S, ctx) ==
  LET N == {n \in UNION {Range(getNeighbors(c)) : c \in S} : Admissible(n, ctx)} \ S
  IN  IF N = {} THEN S ELSE ReachableFrom(S \cup N, ctx)

\* C24: expandRoom returns as expandedBlocks exactly the entry point together
\* with every cell reachable from it through 4-adjacent steps over admissible
\* cells (in the template mask, inside the grid, not occupied), whatever the
\* entry direction and the order in which the frontier is popped.
C24_ExpansionResult ==
  (expansion.running /\ expansion.returned) =>
     /\ Range(expansion.expandedBlocks)
          = ReachableFrom({expansion.ctx.entryPoint}, expansion.ctx)
     /\ expansion.expandedBlocks
          = ExpandLoop(<<expansion.ctx.entryPoint>>, <<expansion.ctx.entryPoint>>,
                       expansion.ctx)
     /\ \A d \in Cardinals :
          Range(ExpandLoop(<<expansion.ctx.entryPoint>>, <<expansion.ctx.entryPoint>>,
                           [expansion.ctx EXCEPT !.entryDirection = d]))
            = Range(expansion.expandedBlocks)

\* a returned expansion that left out an admissible cell of the mask, cut
\* off by an occupied cell of the mask, on a template that crosses the grid's edge
C24_Witness ==
  /\ expansion.running /\ expansion.returned
  /\ \E c \in ExpansionWindow(expansion.ctx.targetPosition) : ~isWithinBounds(c)
  /\ \E c \in ExpansionWindow(expansion.ctx.targetPosition) :
        /\ Admissible(c, expansion.ctx)
        /\ ~Includes(expansion.expandedBlocks, c)
  /\ \E c \in expansion.ctx.occupied :
        Sub(c, expansion.ctx.targetPosition) \in expansion.ctx.geomorphBounds.gridPattern

\* C25: the frontier loop of expandRoom eventually empties the frontier; each
\* cell enters the frontier at most once, and the number of passes is at most
\* the number of true template cells plus one.
C25_ExpansionTerminates ==
  /\ [](expansion.running =>
          /\ \A i, j \in DOMAIN expansion.pushed :
                expansion.pushed[i] = expansion.pushed[j] => i = j
          /\ expansion.iterations
               <= Cardinality(expansion.ctx.geomorphBounds.gridPattern) + 1)
  /\ (expansion.running ~> (expansion.running /\ expansion.frontier = << >>))

\* the loop has ended after one pass more than the mask has cells: the entry
\* cell lies outside the mask and every cell of the mask was reached
C25_Witness ==
  /\ expansion.running /\ expansion.frontier = << >>
  /\ expansion.iterations >= 3
  /\ expansion.iterations
       = Cardinality(expansion.ctx.geomorphBounds.gridPattern) + 1

\* C26: every connection point of an expanded room other than its entry
\* point is at a perimeter cell of the room and is justified (a) by a point
\* of an existing element in the adjacent cell facing the opposite way, or
\* (b) by a door of the template at the same relative position and
\* direction while the adjacent cell is occupied by no existing room or
\* corridor, a room that uses its template's mask included.
C26_DoorPlacement ==
  [][(last'.op = "openDoor" /\ Len(rooms') = Len(rooms) + 1) =>
       LET room     == rooms'[Len(rooms')]
           template == getRoomTemplateById(room.templateId)
       IN  \A c \in DOMAIN room.connectionPoints \ {1} :
              LET cp       == room.connectionPoints[c]
                  adjacent == getAdjacentPosition(cp.position, cp.direction)
              IN  /\ cp.position \in RoomCells(room)
                  /\ \E n \in Range(getNeighbors(cp.position)) : n \notin RoomCells(room)
                  /\ \/ \E e \in DOMAIN Placed :
                          \E p \in DOMAIN Placed[e].connectionPoints :
                             /\ Placed[e].connectionPoints[p].position = adjacent
                             /\ Placed[e].connectionPoints[p].direction
                                  = getOppositeDirection(cp.direction)
                     \/ /\ \E t \in DOMAIN template.connectionPoints :
                             /\ template.connectionPoints[t].position
                                  = Sub(cp.position, last'.targetPosition)
                             /\ template.connectionPoints[t].direction = cp.direction
                        /\ adjacent \notin PlacedCells
  ]_vars

\* C27: for a source point facing d and a template with a point facing
\* opposite(d), calculateRoomPositionFromConnection takes the first such
\* point t and returns source.position - t.position + toVector(d), so that
\* the new room's entry cell is the cell next to the source door in
\* direction d and never the source cell; connectingPointIndex is -1 exactly
\* when the template has no point facing opposite(d); the alignment offset
\* of every pair of directions that are not opposite is (0,0).
C27_DoorAlignment ==
  /\ last.op = "calculateRoomPositionFromConnection" =>
       LET d   == last.direction
           src == last.position
           tps == last.templatePoints
           C   == {i \in DOMAIN tps : tps[i].direction = getOppositeDirection(d)}
       IN  /\ (last.connectingPointIndex = -1) <=> (C = {})
           /\ C # {} =>
                LET t == tps[MinOf(C)]
                IN  /\ last.connectingPointIndex = MinOf(C) - 1
                    /\ last.roomPosition
                         = Add(Sub(src, t.position), directionToVector(d))
                    /\ Add(last.roomPosition, t.position) = getAdjacentPosition(src, d)
                    /\ Add(last.roomPosition, t.position) # src
  /\ last.op = "getDoorPositionAdjustment" =>
       (last.templateDirection # getOppositeDirection(last.sourceDirection)
          => last.adjustment = <<0, 0>>)

\* the template's second point is the first that faces the source, and the
\* room is put across the grid's low edge
C27_Witness ==
  /\ last.op = "calculateRoomPositionFromConnection"
  /\ last.connectingPointIndex = 1
  /\ last.roomPosition[1] < 0
  /\ Len(last.templatePoints) = 2
  /\ last.templatePoints[1].direction # getOppositeDirection(last.direction)

\* C28: validateConnectionPoints returns a template connection point iff its
\* local cell is inside the template bounds, true in availableGrid and true
\* in trimmedPattern, and, unless its index is preserveIndex, the neighbouring
\* cell of trimmedPattern in the point's direction is false or outside the
\* template bounds.
C28_SurvivalRule ==
  last.op = "validateConnectionPoints" =>
     LET tps == last.templatePoints
         Survives(i) ==
           /\ tps[i].position \in FullPattern(MaxMaskWidth, MaxMaskHeight)
           /\ tps[i].position \in last.availableGrid
           /\ tps[i].position \in last.trimmedPattern
           /\ \/ i - 1 = last.preserveConnectionIndex
              \/ getAdjacentPosition(tps[i].position, tps[i].direction)
                   \notin last.trimmedPattern
              \/ getAdjacentPosition(tps[i].position, tps[i].direction)
                   \notin FullPattern(MaxMaskWidth, MaxMaskHeight)
     IN  /\ \A i \in DOMAIN tps : Includes(last.kept, i - 1) <=> Survives(i)
         /\ Len(last.result) = Len(last.kept)
         /\ \A k \in DOMAIN last.result :
               /\ last.result[k].direction = tps[last.kept[k] + 1].direction
               /\ last.result[k].position = tps[last.kept[k] + 1].position

\* the preserved point is returned though it faces a cell of the trimmed
\* pattern, and another point is dropped for facing one
C28_Witness ==
  /\ last.op = "validateConnectionPoints"
  /\ Len(last.templatePoints) = 2
  /\ last.preserveConnectionIndex >= 0
  /\ last.kept = <<last.preserveConnectionIndex>>
  /\ \A i \in DOMAIN last.templatePoints :
        /\ last.templatePoints[i].position \in last.availableGrid
        /\ last.templatePoints[i].position \in last.trimmedPattern
        /\ getAdjacentPosition(last.templatePoints[i].position,
                               last.templatePoints[i].direction)
             \in last.trimmedPattern

\* C29: every point validateConnectionPoints returns carries in its index
\* field the index the point has in the template's connectionPoints array,
\* also when earlier points of the template were filtered out.
C29_OriginalIndex ==
  last.op = "validateConnectionPoints" =>
     \A k \in DOMAIN last.result : last.result[k].index = last.kept[k]

\* C30: after every addElement call, in any sequence of addElement,
\* removeElement, updateDoorState and reset calls, every registered door with
\* two or more connected elements, all of them in the live element list, is
\* Open with isGenerated = true, and every connection point of a connected
\* element at the door's position and direction has isGenerated =
\* isConnected = true.
C30_AutoOpenRule ==
  last.op = "addElement" =>
     \A k \in DOMAIN doors :
        (/\ Len(doors[k].connectedElements) >= 2
         /\ \A i \in DOMAIN doors[k].connectedElements :
               Includes(elements, doors[k].connectedElements[i]))
        => /\ doors[k].state = "open"
           /\ doors[k].isGenerated
           /\ \A i \in DOMAIN doors[k].connectedElements :
                 LET el == GetElement(Current, doors[k].connectedElements[i])
                 IN  \A j \in DOMAIN el.connectionPoints :
                        CpDoorId(el.connectionPoints[j]) = k
                        => /\ el.connectionPoints[j].isGenerated
                           /\ el.connectionPoints[j].isConnected


\* C31: wouldPlaceDoorAgainstSolidWall(cp) is true iff some live element,
\* room or corridor alike, occupies the cell adjacent to cp.position in the
\* direction opposite to cp.direction and has no connection point at
\* (cp.position, cp.direction); it is false when there is no such element.
C31_SolidWall ==
  call = NoCall =>
     \A x \in 0 .. GridSize - 1 : \A y \in 0 .. GridSize - 1 : \A d \in Cardinals :
        LET live == LiveElements(Current)
        IN  wouldPlaceDoorAgainstSolidWall(Current, NewPoint(d, <<x, y>>))
            <=> \E i \in DOMAIN live :
                   /\ getAdjacentPosition(<<x, y>>, getOppositeDirection(d))
                        \in ElementCells(live[i])
                   /\ ~HasPointAt(live[i], <<x, y>>, d)


\* the cell k steps from p in direction d
RunCell(p, d, k) ==
  <<p[1] + k * directionToVector(d)[1], p[2] + k * directionToVector(d)[2]>>

\* C32: a corridor generated from the connection point (p, d) with seed hash
\* h has as path the longest prefix of the run p + v, p + 2v, ... of at most
\* MIN_CORRIDOR_LENGTH + h % MAX_CORRIDOR_LENGTH_VARIANCE cells in which
\* every cell is inside the grid and was unoccupied before the generation,
\* and its length field equals the length of its path.
C32_CorridorPath ==
  call # NoCall =>
     \A seedNum \in 0 .. MaxSeedNum - 1 :
        LET cp == PendingPoint
            content == generateConnectedContent(Current, cp, seedNum)
            maxLength == MIN_CORRIDOR_LENGTH
                           + (seedNum % MAX_CORRIDOR_LENGTH_VARIANCE)
            Free(k) == /\ isWithinBounds(RunCell(cp.position, cp.direction, k))
                       /\ RunCell(cp.position, cp.direction, k) \notin occupied
            n == CHOOSE m \in 0 .. maxLength :
                   /\ \A k \in 1 .. m : Free(k)
                   /\ m < maxLength => ~Free(m + 1)
        IN  content.corridors # << >> =>
              /\ content.corridors[1].path =
                    [k \in 1 .. n |-> RunCell(cp.position, cp.direction, k)]
              /\ content.corridors[1].length = Len(content.corridors[1].path)


\* C33: when generateFromConnectionPoint produces no element (a corridor path
\* of length zero, the adjusted starting cell being outside the grid), the
\* call leaves rooms, corridors, roomCounter, the discovered-id sets,
\* unexploredConnectionPoints, the occupied set and the Door Registry
\* unchanged; openDoor then sets the state of the clicked point.
C33_NoOpGeneration ==
  [][(call # NoCall /\ last'.op = "openDoor" /\ last'.outcome = "noop") =>
       LET before == SetPointState(Current, call.elem, call.idx, "connected")
       IN  /\ ~isWithinBounds(Add(PendingPoint.position,
                                  directionToVector(PendingPoint.direction)))
           /\ rooms' = before.rooms
           /\ corridors' = before.corridors
           /\ roomCounter' = roomCounter
           /\ explorationState'.discoveredRoomIds = explorationState.discoveredRoomIds
           /\ explorationState'.discoveredCorridorIds
                = explorationState.discoveredCorridorIds
           /\ explorationState'.unexploredConnectionPoints
                = explorationState.unexploredConnectionPoints
           /\ occupied' = occupied
           /\ doors' = doors]_vars

\* an openDoor call whose generation produced nothing has returned, with
\* points still unexplored
C33_Witness ==
  /\ last.op = "openDoor"
  /\ last.outcome = "noop"
  /\ explorationState.unexploredConnectionPoints # << >>
  /\ doors # << >>


\* 31 * h + c wrapped to a signed 32-bit integer, the product formed half by
\* half
Wrap31(h, c) ==
  LET l  == (h % 65536) * 31 + c
      hi == ((h \div 65536) % 65536) * 31 + (l \div 65536)
  IN  Int32Of(hi % 65536, l % 65536)

RECURSIVE Fold31(_, _, _)
\* h after the characters of the seed from index i on
Fold31(seed, i, h) ==
  IF i > Len(seed) THEN h ELSE Fold31(seed, i + 1, Wrap31(h, seed[i]))

\* C34: seedToNumber(seed) is the absolute value of h, h starting at 0 and
\* becoming 31 * h + c wrapped to a signed 32-bit integer for each character
\* code c; the result is not negative, so the remainders by 10, by the number
\* of templates and by MAX_CORRIDOR_LENGTH_VARIANCE are not negative and
\* select a valid choice.
C34_SeedHash ==
  last.op = "seedToNumber" =>
     /\ last.seedNum = Abs(Fold31(last.seed, 1, 0))
     /\ last.seedNum >= 0
     /\ Remainder(last.seedNum, 10) \in 0 .. 9
     /\ Remainder(last.seedNum, Len(StandardTemplates)) + 1 \in DOMAIN StandardTemplates
     /\ Remainder(last.seedNum, MAX_CORRIDOR_LENGTH_VARIANCE)
          \in 0 .. MAX_CORRIDOR_LENGTH_VARIANCE - 1

\* a seed whose hash wrapped to a negative number
C34_Witness ==
  /\ last.op = "seedToNumber"
  /\ Fold31(last.seed, 1, 0) < 0
  /\ last.seedNum = 0 - Fold31(last.seed, 1, 0)


\* C35: in every reachable generator state every occupied cell of every
\* placed room (the true cells of its effective mask, the entry cell of an
\* expanded room included) and every path cell of every placed corridor is
\* inside the grid.
C35_GridContainment ==
  \A i \in DOMAIN Placed : \A cell \in ElementCells(Placed[i]) :
     /\ 0 <= cell[1] /\ cell[1] < GridSize
     /\ 0 <= cell[2] /\ cell[2] < GridSize


\* C36: after every public generator operation, rolled-back ones included,
\* roomCounter equals the number of rooms, the ids of the placed rooms are
\* room-00, room-01, ... in placement order (hence pairwise distinct),
\* discoveredRoomIds is exactly the set of room ids and discoveredCorridorIds
\* exactly the set of corridor ids.
C36_ListBookkeeping ==
  call = NoCall =>
     /\ roomCounter = Len(rooms)
     /\ \A i \in DOMAIN rooms : rooms[i].id = RoomId(i - 1)
     /\ explorationState.discoveredRoomIds = {rooms[i].id : i \in DOMAIN rooms}
     /\ explorationState.discoveredCorridorIds
          = {corridors[i].id : i \in DOMAIN corridors}

\* the integration of a generated room was rolled back, two rooms being placed
C36_Witness ==
  /\ call = NoCall
  /\ last.op = "openDoor"
  /\ last.outcome = "rolledback"
  /\ last.cause = "integration"
  /\ last.template # "none"
  /\ Len(rooms) >= 2


\* C37: a connection point that is Ungenerated or Connected when openDoor is
\* called is not Generating when openDoor returns, whether the generation
\* succeeded, produced nothing, or failed and was rolled back; hence no
\* connection point of a placed element is Generating between two
\* operations.
C37_GeneratingTransient ==
  call = NoCall =>
     \A i \in DOMAIN Placed : \A c \in DOMAIN Placed[i].connectionPoints :
        Placed[i].connectionPoints[c].state # "generating"

\* openDoor has returned after a generation that failed inside
\* integrateGeneratedElements and was rolled back, the clicked point being
\* Connected

\* C38: in every reachable generator state every connection point with
\* isConnected = TRUE on a placed room or corridor has as connectedElementId
\* the id of a different element that is in rooms or corridors, never
\* undefined and never a placeholder such as 'unknown'.
C38_ConnectedElementId ==
  \A i \in DOMAIN Placed : \A c \in DOMAIN Placed[i].connectionPoints :
     LET cp == Placed[i].connectionPoints[c]
     IN  cp.isConnected =>
           /\ cp.connectedElementId # NoId
           /\ cp.connectedElementId # UnknownId
           /\ cp.connectedElementId # Placed[i].id
           /\ \E j \in DOMAIN Placed : Placed[j].id = cp.connectedElementId


\* C39: expandRoom never returns an empty expandedBlocks: the entry point is
\* always a member, also when it is occupied, outside the grid or outside
\* the template mask, so an empty block set never signals that the room
\* cannot be placed.
C39_EntryAlwaysMember ==
  expansion.running =>
     /\ expansion.expandedBlocks # << >>
     /\ Includes(expansion.expandedBlocks, expansion.ctx.entryPoint)

\* expandRoom has returned the entry point alone, the entry point being
\* occupied and outside the template mask
C39_Witness ==
  /\ expansion.running
  /\ expansion.returned
  /\ expansion.expandedBlocks = <<expansion.ctx.entryPoint>>
  /\ expansion.ctx.entryPoint \in expansion.ctx.occupied
  /\ Sub(expansion.ctx.entryPoint, expansion.ctx.targetPosition)
       \notin expansion.ctx.geomorphBounds.gridPattern

C37_Witness ==
  /\ call = NoCall
  /\ last.op = "openDoor"
  /\ last.outcome = "rolledback"
  /\ last.cause = "integration"
  /\ PointOf(Current, last.elem, last.idx).state = "connected"

====
